---- MODULE Spec2Model ----
(***************************************************************************)
(* A model of mcp-codex-dev: the session store (session-manager.ts), the   *)
(* progress hub / forwarder (progress-server.ts), the process orchestrator *)
(* (codex-executor.ts), the event normalizer (event-mapper.ts) and the     *)
(* exec / tdd / review tools built on them.                                *)
(*                                                                         *)
(* The module holds several specifications over one set of variables; each *)
(* specification moves only the variables of the component it models and   *)
(* leaves the others unchanged.                                            *)
(*   SpecStore  the session store of one project root, concurrent callers  *)
(*   SpecFwd    one forwarder instance relaying its queue to the hub       *)
(*   SpecHub    supervisor instances competing for one port                *)
(*   SpecRun    one run of spawnCodex: abort signal, timer, process exit   *)
(*   SpecTool   exec / tdd / review invocations from call to return        *)
(***************************************************************************)
EXTENDS Integers, Sequences, FiniteSets, TLC

VARIABLES
    \* ---- session store (session-manager.ts) ----
    disk,        \* the table file sessions.json: [kind, table]
    tmp,         \* the temp file sessions.json.tmp: [kind, table]
    sessions,    \* ProjectStore.sessions, the in-memory cache
    loaded,      \* ProjectStore.loaded
    writeQueue,  \* ProjectStore.writeQueue: the calls whose doSave is chained, in order
    saveStep,    \* position of the head doSave: "mkdir", "write", "writing", "rename"
    calls,       \* the store calls in progress: [pc, op, id, status, applied]
    now,         \* the clock read by new Date()
    \* ---- forwarder (progress-server.ts, client mode) ----
    ingestQueue,      \* ProgressServer.ingestQueue
    ingestRetryTimer, \* whether ingestRetryTimer is set
    flushes,          \* flushIngestQueue calls: [waiting, posts, timers]
    hubLog,           \* the events the hub's /ingest accepted, in order
    nextEvent,        \* the next event number emit is called with
    mode,             \* ProgressServer.mode of the forwarder: "client" or "disabled"
    \* ---- hub election (progress-server.ts start/stop) ----
    inst,        \* per supervisor instance: [alive, server, mode, clients]
    portOwner,   \* the instance bound to the port, 0 when the port is free
    \* ---- one run of spawnCodex (codex-executor.ts) ----
    run,         \* one executeWrite / executeReview call, see RunConfigs
    \* ---- tool invocations (codex-exec.ts, codex-tdd.ts, codex-review.ts) ----
    inv,         \* per invocation: its parameters, position, events and result
    \* ---- the supervisor process (index.ts main) ----
    sup,         \* [pc, lives]: "loading", "sweeping", "saving", "serving"; restarts so far
    \* ---- the hub's broadcast (progress-server.ts emitToSseClients, /events, /ingest) ----
    cast,        \* [clients, dead, streams, last], see InitCastVars
    \* ---- store operations called one after another (session-manager.ts) ----
    ops,         \* the last operation: [op, id, arg, before, at, result]
    \* ---- session tools over several project roots (session-discard/list, index.ts) ----
    proj,        \* [tables, artifacts, last], see IdleProj
    \* ---- the parsers applied to one input (codex-executor.ts, event-mapper.ts) ----
    pure,        \* the input and what the parsers returned for it
    \* ---- the stdout handler of spawnCodex (codex-executor.ts) ----
    pipe,        \* [todo, stdout, lineBuffer, delivered, atExit, exited, result], see IdlePipe
    \* ---- two supervisor processes on one project root (session-manager.ts) ----
    peers        \* per process: [loaded, sessions, pc], see IdlePeers

storeVars == <<disk, tmp, sessions, loaded, writeQueue, saveStep, calls, now>>
fwdVars   == <<ingestQueue, ingestRetryTimer, flushes, hubLog, nextEvent, mode>>
hubVars   == <<inst, portOwner>>
runVars   == <<run>>
toolVars  == <<inv>>
lifeVars  == <<sup>>
castVars  == <<cast>>
opsVars   == <<ops>>
projVars  == <<proj>>
pureVars  == <<pure>>
pipeVars  == <<pipe>>
peerVars  == <<peers>>
vars      == <<storeVars, fwdVars, hubVars, runVars, toolVars, lifeVars, castVars, opsVars, projVars, pureVars, pipeVars, peerVars>>

\* what each component's actions leave alone
notStore == <<fwdVars, hubVars, runVars, toolVars, lifeVars, castVars, opsVars, projVars, pureVars, pipeVars, peerVars>>
notFwd   == <<storeVars, hubVars, runVars, toolVars, lifeVars, castVars, opsVars, projVars, pureVars, pipeVars, peerVars>>
notHub   == <<storeVars, fwdVars, runVars, toolVars, lifeVars, castVars, opsVars, projVars, pureVars, pipeVars, peerVars>>
notRun   == <<storeVars, fwdVars, hubVars, toolVars, lifeVars, castVars, opsVars, projVars, pureVars, pipeVars, peerVars>>
notLife  == <<fwdVars, hubVars, runVars, toolVars, castVars, opsVars, projVars, pureVars, pipeVars, peerVars>>

(***************************************************************************)
(* Bounds                                                                  *)
(***************************************************************************)
NCalls == 2
MaxTime == 2

Ids == {"s1", "s2", "s3"}
CallIds == 1..NCalls

(***************************************************************************)
(* Session records (types/index.ts TrackedSession).  An optional field that *)
(* is absent holds the falsy value of its type: 0 for lastResumedAt, "" for *)
(* linkedSessionId.                                                        *)
(***************************************************************************)
Statuses == {"active", "completed", "abandoned"}

TrackedSession(id, type, createdAt, status) ==
    [sessionId |-> id, type |-> type, createdAt |-> createdAt,
     lastResumedAt |-> 0, linkedSessionId |-> "", status |-> status]

EmptyTable == [x \in {} |-> TrackedSession("", "exec", 0, "completed")]

\* a track that keeps the lastResumedAt of the record it replaces
trackKeepsActivity(m, rec) ==
    [x \in (DOMAIN m) \cup {rec.sessionId} |->
        IF x /= rec.sessionId THEN m[x]
        ELSE IF x \in DOMAIN m THEN [rec EXCEPT !.lastResumedAt = m[x].lastResumedAt]
        ELSE rec]

\* the body of track after load
trackMap(m, rec) ==
    [x \in (DOMAIN m) \cup {rec.sessionId} |-> IF x = rec.sessionId THEN rec ELSE m[x]]

\* store.sessions.set(session.sessionId, session)
MapSet(m, id, rec) ==
    [x \in (DOMAIN m) \cup {id} |-> IF x = id THEN rec ELSE m[x]]

\* an updateStatus that stamps the record but leaves an abandonment unrecorded
updateStatusKeepsActive(m, id, status, t) ==
    IF id \in DOMAIN m
    THEN [m EXCEPT ![id].status = IF status = "abandoned" THEN @ ELSE status,
                   ![id].lastResumedAt = t]
    ELSE m

\* an updateStatus that creates the record it does not find
updateStatusCreates(m, id, status, t) ==
    [x \in (DOMAIN m) \cup {id} |->
        IF x /= id THEN m[x]
        ELSE IF x \in DOMAIN m THEN [m[x] EXCEPT !.status = status, !.lastResumedAt = t]
        ELSE [sessionId |-> id, type |-> "write", createdAt |-> t, lastResumedAt |-> t,
              linkedSessionId |-> "", status |-> status]]

\* the body of updateStatus after load: status and lastResumedAt of an existing record
updateStatusMap(m, id, status, t) ==
    IF id \in DOMAIN m
    THEN [m EXCEPT ![id].status = status, ![id].lastResumedAt = t]
    ELSE m

\* a link that creates the record it does not find
linkCreates(m, idA, idB) ==
    [x \in (DOMAIN m) \cup {idA, idB} |->
        LET r == IF x \in DOMAIN m THEN m[x]
                 ELSE [sessionId |-> x, type |-> "write", createdAt |-> 0,
                       lastResumedAt |-> 0, linkedSessionId |-> "", status |-> "active"]
        IN IF x = idB THEN [r EXCEPT !.linkedSessionId = idA]
           ELSE IF x = idA THEN [r EXCEPT !.linkedSessionId = idB]
           ELSE r]

\* the body of link after load: the two assignments in the order the code makes them
linkMap(m, idA, idB) ==
    LET m1 == IF idA \in DOMAIN m THEN [m EXCEPT ![idA].linkedSessionId = idB] ELSE m
    IN IF idB \in DOMAIN m1 THEN [m1 EXCEPT ![idB].linkedSessionId = idA] ELSE m1

\* the body of markResumed after load
markResumedMap(m, id, t) ==
    IF id \in DOMAIN m THEN [m EXCEPT ![id].lastResumedAt = t] ELSE m

(***************************************************************************)
(* The session store under concurrent callers                              *)
(***************************************************************************)
AbsentFile == [kind |-> "absent", table |-> EmptyTable]
CorruptFile == [kind |-> "corrupt", table |-> EmptyTable]
TableFile(t) == [kind |-> "ok", table |-> t]
\* a file that writeFile has truncated and not finished writing; table is the content
\* being written
PartialFile(t) == [kind |-> "partial", table |-> t]

\* the tables a previous supervisor may have left on disk
OldTables ==
    {EmptyTable,
     MapSet(EmptyTable, "s3", TrackedSession("s3", "write", 1, "completed"))}

IdleCall == [pc |-> "idle", op |-> "none", id |-> "", status |-> "completed",
             applied |-> FALSE]

\* what a call does to the cache once load has returned
mutate(m, c) ==
    IF c.op = "track"
    THEN MapSet(m, c.id, TrackedSession(c.id, "exec", now, c.status))
    ELSE updateStatusMap(m, c.id, c.status, now)

\* whether the call reaches this.save(store): track always, updateStatus on a record
reachesSave(m, c) == c.op = "track" \/ c.id \in DOMAIN m

\* the continuation of track / updateStatus after `await this.load(options)`
afterLoad(c, call, m) ==
    /\ sessions' = mutate(m, call)
    /\ IF reachesSave(m, call)
       THEN /\ writeQueue' = Append(writeQueue, c)
            /\ saveStep' = IF writeQueue = <<>> THEN "mkdir" ELSE saveStep
            /\ calls' = [calls EXCEPT ![c] = [call EXCEPT !.pc = "saving", !.applied = TRUE]]
       ELSE /\ UNCHANGED <<writeQueue, saveStep>>
            /\ calls' = [calls EXCEPT ![c] = [call EXCEPT !.pc = "done"]]

\* load(): what the cache becomes when the read of the table file completes
loadedTable(file) == IF file.kind = "ok" THEN file.table ELSE EmptyTable

\* track(session) / updateStatus(id, status) is called.  load() returns at once when
\* the store is loaded or no table file exists; otherwise it awaits readFile.
Call(c, op, id, status) ==
    /\ calls[c].pc = "idle"
    /\ LET call == [pc |-> "called", op |-> op, id |-> id, status |-> status,
                    applied |-> FALSE]
       IN IF loaded
          THEN /\ afterLoad(c, call, sessions)
               /\ UNCHANGED loaded
          ELSE IF disk.kind = "absent"
               THEN /\ loaded' = TRUE
                    /\ afterLoad(c, call, sessions)
               ELSE /\ calls' = [calls EXCEPT ![c] = [call EXCEPT !.pc = "reading"]]
                    /\ UNCHANGED <<sessions, loaded, writeQueue, saveStep>>
    /\ UNCHANGED <<disk, tmp, now, notStore>>

\* the readFile of load() completes: the cache is replaced by what was read
LoadDone(c) ==
    /\ calls[c].pc = "reading"
    /\ loaded' = TRUE
    /\ afterLoad(c, calls[c], loadedTable(disk))
    /\ UNCHANGED <<disk, tmp, now, notStore>>

\* doSave of the head of the write queue: mkdir
SaveMkdir ==
    /\ writeQueue /= <<>>
    /\ saveStep = "mkdir"
    /\ saveStep' = "write"
    /\ UNCHANGED <<disk, tmp, sessions, loaded, writeQueue, calls, now, notStore>>

\* a doSave that writes the table file in place, without temp file
SaveWriteInPlace ==
    /\ writeQueue /= <<>>
    /\ saveStep = "write"
    /\ disk' = PartialFile(sessions)
    /\ saveStep' = "writing"
    /\ UNCHANGED <<tmp, sessions, loaded, writeQueue, calls, now, notStore>>

\* doSave: serialize store.sessions as it is now; writeFile opens and truncates the
\* temp file and starts writing
SaveWrite ==
    /\ writeQueue /= <<>>
    /\ saveStep = "write"
    /\ tmp' = PartialFile(sessions)
    /\ saveStep' = "writing"
    /\ UNCHANGED <<disk, sessions, loaded, writeQueue, calls, now, notStore>>

\* doSave: writeFile has written the whole content to the temp file
SaveWritten ==
    /\ writeQueue /= <<>>
    /\ saveStep = "writing"
    /\ tmp' = TableFile(tmp.table)
    /\ saveStep' = "rename"
    /\ UNCHANGED <<disk, sessions, loaded, writeQueue, calls, now, notStore>>

\* doSave: rename the temp file over the table; the caller's save() resolves
SaveRename ==
    /\ writeQueue /= <<>>
    /\ saveStep = "rename"
    /\ disk' = tmp
    /\ tmp' = AbsentFile
    /\ writeQueue' = Tail(writeQueue)
    /\ saveStep' = "mkdir"
    /\ calls' = [c \in CallIds |-> IF c = Head(writeQueue)
                                   THEN [calls[c] EXCEPT !.pc = "done"]
                                   ELSE calls[c]]
    /\ UNCHANGED <<sessions, loaded, now, notStore>>

Tick ==
    /\ now < MaxTime
    /\ now' = now + 1
    /\ UNCHANGED <<disk, tmp, sessions, loaded, writeQueue, saveStep, calls, notStore>>

(***************************************************************************)
(* Structured errors (codex-executor.ts createError, types CodexErrorCode)  *)
(***************************************************************************)
\* the recoverable flag createError's table gives each code
recoverableOf(code) == code \in {"CODEX_TIMEOUT", "CODEX_EXECUTION_FAILED"}

createError(code, message) ==
    [code |-> code, message |-> message, recoverable |-> recoverableOf(code)]

\* exit codes: 0, 1, and Null for the null of a process ended by a signal
Null == -1
ExitCodes == {0, 1, Null}

Pending == [kind |-> "pending", exitCode |-> Null, error |-> createError("", "")]
Resolved(code) == [kind |-> "resolved", exitCode |-> code, error |-> createError("", "")]
Rejected(err) == [kind |-> "rejected", exitCode |-> Null, error |-> err]

(***************************************************************************)
(* One call of executeWrite / executeReview.                               *)
(*   pc        "checking" (checkCodexInstalled), "spawned", "notSpawned"   *)
(*   signal    options.signal: "absent", "armed" or "fired" (aborted)      *)
(*   timeout   whether a positive timeout is configured                    *)
(*   isWindows process.platform === "win32"                                *)
(*   viaShell  whether the shell of `shell: true` runs the tool as a child *)
(*             of its own (it may also replace itself by the tool)         *)
(*   proc      the spawned process: "none", "running", "exited"            *)
(*   child     the tool process below the shell: "none", "running",        *)
(*             "exited"                                                    *)
(*   killed    what was asked to end: "none", "handle" (SIGTERM to the     *)
(*             spawned process) or "tree" (taskkill /T /F)                 *)
(*   listener  the abort listener is registered                            *)
(*   aborted   the local flag set by onAbort                               *)
(*   timer     "none", "armed", "fired", "cleared"                         *)
(*   first     which of abort listener and timer ran first (history)       *)
(*   outcome   the promise returned to the caller                          *)
(***************************************************************************)
RunConfigs ==
    { [pc |-> "checking", signal |-> sig, timeout |-> t, isWindows |-> w,
       viaShell |-> sh, proc |-> "none", child |-> "none", killed |-> "none",
       listener |-> FALSE, aborted |-> FALSE, timer |-> "none", first |-> "none",
       outcome |-> Pending] :
      sig \in {"absent", "armed"}, t \in BOOLEAN, w \in BOOLEAN, sh \in BOOLEAN }

(***************************************************************************)
(* The tool's standard output.  A line is one JSON event of the Codex CLI,  *)
(* or text that is not JSON ("junk").  Texts carry their length so that     *)
(* slicing can be modelled: [text, len] is the prefix of length len of the  *)
(* text named text.                                                        *)
(***************************************************************************)
Line(type, sid, path, kind, text, len) ==
    [type |-> type, sid |-> sid, path |-> path, kind |-> kind, text |-> text, len |-> len]

ThreadStarted(sid) == Line("thread.started", sid, "", "", "", 0)
FileChange(path, kind) == Line("file_change", "", path, kind, "", 0)
\* the older item format: type file_change with filename and action, no changes array
OldFileChange(filename, action) == Line("file_change_old", "", filename, action, "", 0)
AgentMessage(text, len) == Line("agent_message", "", "", "", text, len)
TurnCompleted == Line("turn.completed", "", "", "", "", 0)
Junk == Line("junk", "", "", "", "", 0)

\* what the tool may write, line by line; a run may end after any prefix
Scripts ==
    << <<ThreadStarted("s2"), FileChange("a.txt", "add"), AgentMessage("done", 4)>>,
       <<Junk, FileChange("b.txt", "update"), TurnCompleted>> >>

NInvocations == 1
Invocations == 1..NInvocations
Tools == {"exec", "tdd", "review"}

(***************************************************************************)
(* parseOutput (codex-executor.ts 305-414)                                 *)
(***************************************************************************)
SummaryMax == 500
PathLen == 5

\* a path longer than a summary may be
LongPath == "long/path"
LongPathLen == 600

pathLength(path) == IF path = LongPath THEN LongPathLen ELSE PathLen

\* lines 307-317: the lines that parse as JSON
rawEvents(stdout) == SelectSeq(stdout, LAMBDA l : l.type /= "junk")

\* lines 320-327: the identifier of the first thread.started event, "" when none
parsedSessionId(events) ==
    LET started == SelectSeq(events, LAMBDA l : l.type = "thread.started")
    IN IF started = <<>> THEN "" ELSE Head(started).sid

Paths(lines) == [k \in 1..Len(lines) |-> lines[k].path]

\* a parse in which every old-format change that did not create the file modified it
filesModifiedOrElse(events) ==
    Paths(SelectSeq(events, LAMBDA l :
        \/ l.type = "file_change" /\ l.kind /= "add"
        \/ l.type = "file_change_old" /\ l.kind /= "created"))

\* lines 330-363: a change of the changes array is created when its kind is add and
\* modified otherwise; an old-format change is created / modified when its action
\* says so and is skipped otherwise
filesCreatedOf(events) ==
    Paths(SelectSeq(events, LAMBDA l :
        \/ l.type = "file_change" /\ l.kind = "add"
        \/ l.type = "file_change_old" /\ l.kind = "created"))
filesModifiedOf(events) ==
    Paths(SelectSeq(events, LAMBDA l :
        \/ l.type = "file_change" /\ l.kind /= "add"
        \/ l.type = "file_change_old" /\ l.kind = "modified"))

\* lines 366-389
agentMessagesOf(events) ==
    SelectSeq(events, LAMBDA l : l.type = "agent_message" /\ l.len > 0)

RECURSIVE totalLength(_)
totalLength(paths) ==
    IF paths = <<>> THEN 0 ELSE pathLength(Head(paths)) + totalLength(Tail(paths))

\* the length of `label + paths.join(", ")`
joinedLen(labelLen, paths) ==
    IF paths = <<>> THEN 0 ELSE labelLen + totalLength(paths) + (Len(paths) - 1) * 2

\* lines 392-404: the last message cut to 500 characters, else the sentence listing
\* the files, else empty
summaryOf(messages, created, modified) ==
    IF messages /= <<>>
    THEN LET last == messages[Len(messages)]
         IN [kind |-> "message", text |-> last.text,
             len |-> IF last.len > SummaryMax THEN SummaryMax ELSE last.len,
             created |-> <<>>, modified |-> <<>>]
    ELSE IF created /= <<>> \/ modified /= <<>>
         THEN [kind |-> "files", text |-> "",
               len |-> joinedLen(9, created) + joinedLen(10, modified)
                       + (IF created /= <<>> /\ modified /= <<>> THEN 2 ELSE 0),
               created |-> created, modified |-> modified]
         ELSE [kind |-> "empty", text |-> "", len |-> 0,
               created |-> <<>>, modified |-> <<>>]

EmptySummary == summaryOf(<<>>, <<>>, <<>>)

parseOutput(stdout) ==
    LET events == rawEvents(stdout)
    IN [sessionId |-> parsedSessionId(events),
        summary |-> summaryOf(agentMessagesOf(events), filesCreatedOf(events),
                              filesModifiedOf(events)),
        filesModified |-> filesModifiedOf(events),
        filesCreated |-> filesCreatedOf(events),
        agentMessages |-> agentMessagesOf(events)]

(***************************************************************************)
(* Progress events: [type, content]; a content is a sequence of strings    *)
(***************************************************************************)
ProgressEvent(type, content) == [type |-> type, content |-> content]
NoEvent == ProgressEvent("", <<>>)

\* mapCodexLineToProgressEvent (event-mapper.ts): NoEvent stands for null
mapCodexLineToProgressEvent(l) ==
    IF l.type = "thread.started" THEN ProgressEvent("start", <<l.sid>>)
    ELSE IF l.type \in {"file_change", "file_change_old"}
         THEN ProgressEvent("file_change", <<l.kind, l.path>>)
    ELSE IF l.type = "agent_message" THEN ProgressEvent("message", <<l.text>>)
    ELSE IF l.type = "turn.completed" THEN ProgressEvent("end", <<"turn completed">>)
    ELSE NoEvent

\* startOperation / endOperation (progress-server.ts 96-119)
startOperation(description) == ProgressEvent("start", <<description>>)
endOperation(success) ==
    ProgressEvent("end", <<IF success THEN "completed" ELSE "failed">>)

(***************************************************************************)
(* Tool results (CodexWriteResult, CodexReviewResult in one record)        *)
(***************************************************************************)
NoError == createError("", "")

\* codex-exec.ts 88-104, codex-tdd.ts 148-201, codex-review.ts 232-236: the result of
\* a run whose process exited
exitResult(tool, sessionId, parsed, exitCode) ==
    [success |-> exitCode = 0,
     sessionId |-> sessionId,
     summary |-> IF tool = "review" THEN EmptySummary ELSE parsed.summary,
     filesModified |-> IF tool = "review" THEN <<>> ELSE parsed.filesModified,
     filesCreated |-> IF tool = "review" THEN <<>> ELSE parsed.filesCreated,
     review |-> IF tool = "review" THEN parsed.agentMessages ELSE <<>>,
     status |-> IF tool = "review" THEN ""
                ELSE IF exitCode /= 0 THEN "error"
                ELSE IF parsed.filesCreated /= <<>> \/ parsed.filesModified /= <<>>
                     THEN "needs_review" ELSE "completed",
     error |-> NoError]

\* codex-exec.ts 115-127, codex-tdd.ts 213-229, codex-review.ts 94-105: the result
\* built in the catch block
errorResult(tool, paramsSessionId, err) ==
    [success |-> FALSE,
     sessionId |-> paramsSessionId,
     summary |-> EmptySummary,
     filesModified |-> <<>>,
     filesCreated |-> <<>>,
     review |-> <<>>,
     status |-> IF tool = "review" THEN "" ELSE "error",
     error |-> [code |-> IF err.code = "" THEN "UNKNOWN_ERROR" ELSE err.code,
                message |-> err.message,
                recoverable |-> err.recoverable]]

NoResult == errorResult("", "", NoError)

\* a missing session identifier reported as an error worth retrying
InvalidOutputRecoverable ==
    [code |-> "CODEX_INVALID_OUTPUT", message |-> "no session id", recoverable |-> TRUE]

InvalidOutput ==
    [code |-> "CODEX_INVALID_OUTPUT", message |-> "no session id", recoverable |-> FALSE]

(***************************************************************************)
(* One exec / tdd / review invocation.                                     *)
(*   pc         "idle", "checking", "running", "resumed", "ending",        *)
(*              "failing", "returned"                                      *)
(*   tool, sessionId, script   the call's parameters and the tool's output *)
(*   pos        the lines of the script written so far                     *)
(*   proc       the tool process is running                                *)
(*   outcome    what executeWrite / executeReview settled with             *)
(*   events     the progress events emitted with this operationId          *)
(*   caught     the error the catch block received                         *)
(*   result     what the tool call returned                                *)
(*   shared     another invocation writing the same session record was in  *)
(*              progress during this one or began after it (history)       *)
(***************************************************************************)
IdleInvocation ==
    [pc |-> "idle", tool |-> "", sessionId |-> "", script |-> 1, pos |-> 0,
     proc |-> FALSE, outcome |-> Pending, events |-> <<>>, caught |-> NoError,
     result |-> NoResult, shared |-> FALSE]

(***************************************************************************)
(* JSON on the wire.  A JavaScript value is [top, keys, props]: top is      *)
(* "object", "array" or "null", keys the property names in insertion       *)
(* order, props the value of each; a property value is [t, v] with t        *)
(* "string" or "number".  A text is [json, top, members]: json says whether *)
(* it parses, members are the [key, val] pairs in the order written (a key  *)
(* may occur twice).                                                       *)
(***************************************************************************)
Str(v) == [t |-> "string", v |-> v]
Num(v) == [t |-> "number", v |-> v]

EventKeys == <<"timestamp", "operationId", "type", "content">>
EventKeySet == {EventKeys[k] : k \in 1..Len(EventKeys)}

NoProps == [k \in {} |-> Str("")]
NullValue == [top |-> "null", keys |-> <<>>, props |-> NoProps]
ArrayValue == [top |-> "array", keys |-> <<>>, props |-> NoProps]

\* a ProgressEvent object as the tools build it: the four string properties
eventObject(timestamp, operationId, type, content) ==
    [top |-> "object", keys |-> EventKeys,
     props |-> [k \in EventKeySet |->
                  IF k = "timestamp" THEN Str(timestamp)
                  ELSE IF k = "operationId" THEN Str(operationId)
                  ELSE IF k = "type" THEN Str(type)
                  ELSE Str(content)]]

\* JSON.stringify: the properties in insertion order
JSONstringify(value) ==
    [json |-> TRUE, top |-> value.top,
     members |-> [i \in 1..Len(value.keys) |->
                    [key |-> value.keys[i], val |-> value.props[value.keys[i]]]]]

RECURSIVE firstKeys(_)
\* the distinct keys of the members, in the order of their first occurrence
firstKeys(ms) ==
    IF ms = <<>> THEN <<>>
    ELSE LET front == firstKeys(SubSeq(ms, 1, Len(ms) - 1))
             k == ms[Len(ms)].key
         IN IF \E i \in 1..Len(front) : front[i] = k THEN front ELSE Append(front, k)

\* the value of the last member with key k
lastVal(ms, k) ==
    ms[CHOOSE i \in 1..Len(ms) :
          ms[i].key = k /\ \A j \in (i + 1)..Len(ms) : ms[j].key /= k].val

\* JSON.parse of a text that parses (it throws on the others)
JSONparse(text) ==
    [top |-> text.top, keys |-> firstKeys(text.members),
     props |-> [k \in {text.members[i].key : i \in 1..Len(text.members)} |->
                  lastVal(text.members, k)]]

\* an isProgressEvent that does not look at content
isProgressEventNoContent(value) ==
    /\ value.top \in {"object", "array"}
    /\ \A k \in EventKeySet \ {"content"} :
          k \in DOMAIN value.props /\ value.props[k].t = "string"

\* isProgressEvent (progress-server.ts 282-291)
isProgressEvent(value) ==
    /\ value.top \in {"object", "array"}
    /\ \A k \in EventKeySet : k \in DOMAIN value.props /\ value.props[k].t = "string"

(***************************************************************************)
(* The hub's broadcast state.                                              *)
(*   clients  this.clients, the viewers registered by GET /events          *)
(*   dead     the clients whose connection has ended (writableEnded or     *)
(*            destroyed) and whose close event has not run yet             *)
(*   streams  per viewer, the frames written to its current connection     *)
(*   last     the last publication or ingest request: its source, its      *)
(*            body, the status answered, and clients, dead and streams as  *)
(*            they were before it                                          *)
(***************************************************************************)
CastViewers == {"v1", "v2"}

\* `:ok\n\n` and `event: progress\ndata: ${data}\n\n`
OkComment == [event |-> "", data |-> JSONstringify(NullValue)]
ProgressFrame(data) == [event |-> "progress", data |-> data]

IdleCast ==
    [clients |-> {}, dead |-> {}, streams |-> [v \in CastViewers |-> <<>>],
     last |-> [src |-> "none", body |-> JSONstringify(NullValue), status |-> 0,
               clients |-> {}, dead |-> {}, streams |-> [v \in CastViewers |-> <<>>]]]

(***************************************************************************)
(* Store operations called one after another: the last one, its arguments, *)
(* the cache before it, the clock it read and what it returned; and, for a  *)
(* get, of the operation before it: its name, the record it tracked and     *)
(* whether that track replaced a different record; for a cleanup, of the    *)
(* operation before it: its name, threshold, clock and what it removed.     *)
(***************************************************************************)
NoRecord == TrackedSession("", "exec", 0, "completed")

NoOp ==
    [op |-> "none", id |-> "", rec |-> NoRecord, status |-> "completed", hours |-> 0,
     before |-> EmptyTable, at |-> 0, found |-> FALSE, got |-> NoRecord, removed |-> {},
     prev |-> "none", prevRec |-> NoRecord, prevOver |-> FALSE,
     prevHours |-> 0, prevAt |-> 0, prevRemoved |-> {}]

(***************************************************************************)
(* Project roots.  A tool call carries a workingDirectory hint; the store   *)
(* keeps one table per project root.                                       *)
(*   tables     per root, ProjectStore.sessions of that root                *)
(*   artifacts  the sessions that have a directory ~/.codex/sessions/<id>,  *)
(*              written by the external tool                               *)
(*   last       the last tool call: its arguments, tables and artifacts as  *)
(*              they were before it, and what it returned                   *)
(*   running    per resuming tool call, the session whose tool process is   *)
(*              running, "" when none is                                    *)
(***************************************************************************)
Roots == {"root0", "rootW"}

\* the workingDirectory of a call: "" when the caller gave none
Hints == {"", "W"}

\* resolveProjectRoot: without a hint the root of the supervisor's own directory
resolveProjectRoot(hint) == IF hint = "" THEN "root0" ELSE "rootW"

NoTables == [r \in Roots |-> EmptyTable]

NoProjOp ==
    [op |-> "none", hint |-> "", id |-> "", force |-> FALSE, filter |-> "all", hours |-> 0,
     tables |-> NoTables, artifacts |-> {}, listed |-> {}, outcome |-> "none"]

\* the tool calls that may have a tool process running
GuardRuns == {1, 2}

IdleProj ==
    [tables |-> NoTables, artifacts |-> {}, last |-> NoProjOp,
     running |-> [i \in GuardRuns |-> ""]]

(***************************************************************************)
(* One line as text, for the event normalizer: whether it parses as JSON,   *)
(* the kind of value it parses to, and for an object the fields the         *)
(* normalizer reads.  A field holds the kind of its value: "absent",        *)
(* "null", "string", "number", "object", "array" (of objects),              *)
(* "emptyArray", "arrayWithNull" (an array with a null entry).              *)
(***************************************************************************)
Raw(json, top, type, item, itemType, role, changes, content) ==
    [json |-> json, top |-> top, type |-> type, item |-> item, itemType |-> itemType,
     role |-> role, changes |-> changes, content |-> content]

RawItem(type, itemType, role, changes, content) ==
    Raw(TRUE, "object", type, "object", itemType, role, changes, content)

RawLines ==
    { Raw(FALSE, "", "", "absent", "", "", "absent", "absent"),
      Raw(TRUE, "null", "", "absent", "", "", "absent", "absent"),
      Raw(TRUE, "number", "", "absent", "", "", "absent", "absent"),
      Raw(TRUE, "string", "", "absent", "", "", "absent", "absent"),
      Raw(TRUE, "array", "", "absent", "", "", "absent", "absent"),
      Raw(TRUE, "object", "", "absent", "", "", "absent", "absent"),
      Raw(TRUE, "object", "thread.started", "absent", "", "", "absent", "absent"),
      Raw(TRUE, "object", "turn.completed", "absent", "", "", "absent", "absent"),
      Raw(TRUE, "object", "item.completed", "absent", "", "", "absent", "absent"),
      Raw(TRUE, "object", "item.completed", "null", "", "", "absent", "absent"),
      Raw(TRUE, "object", "item.completed", "string", "", "", "absent", "absent"),
      Raw(TRUE, "object", "item.started", "null", "", "", "absent", "absent"),
      RawItem("item.started", "command_execution", "", "absent", "absent"),
      RawItem("item.completed", "reasoning", "", "absent", "arrayWithNull"),
      RawItem("item.completed", "command_execution", "", "absent", "absent"),
      RawItem("item.completed", "agent_message", "", "absent", "absent"),
      RawItem("item.completed", "file_change", "", "array", "absent"),
      RawItem("item.completed", "file_change", "", "string", "absent"),
      RawItem("item.completed", "file_change", "", "absent", "absent"),
      RawItem("item.completed", "file_change", "", "arrayWithNull", "absent"),
      RawItem("item.created", "", "assistant", "absent", "array"),
      RawItem("item.created", "", "assistant", "absent", "emptyArray"),
      RawItem("item.created", "", "assistant", "absent", "absent"),
      RawItem("item.created", "", "assistant", "absent", "string"),
      RawItem("item.created", "", "assistant", "absent", "arrayWithNull"),
      RawItem("item.created", "other", "user", "absent", "array") }

Mapped(type) == [kind |-> "event", type |-> type]
MappedNull == [kind |-> "null", type |-> ""]
Throws == [kind |-> "throws", type |-> ""]

\* `if (!item) return null` and the branches on item.type and item.role
mapItem(r) ==
    IF r.item \in {"absent", "null"} THEN MappedNull
    ELSE IF r.item /= "object" THEN MappedNull
    ELSE IF r.itemType = "reasoning" THEN Mapped("reasoning")
    ELSE IF r.itemType = "command_execution" THEN Mapped("command")
    ELSE IF r.itemType = "file_change"
         THEN IF r.changes = "arrayWithNull" THEN Throws ELSE Mapped("file_change")
    ELSE IF r.itemType = "agent_message" THEN Mapped("message")
    ELSE IF r.role = "assistant"
         THEN IF r.content = "array" THEN Mapped("message")
              ELSE IF r.content \in {"string", "arrayWithNull"} THEN Throws
              ELSE MappedNull
    ELSE MappedNull

\* mapCodexLineToProgressEvent on the text of a line: the event it returns, null, or
\* the TypeError it throws
mapCodexLine(r) ==
    IF ~r.json THEN MappedNull
    ELSE IF r.top = "null" THEN Throws
    ELSE IF r.top /= "object" THEN MappedNull
    ELSE IF r.type = "thread.started" THEN Mapped("start")
    ELSE IF r.type \in {"item.completed", "item.created"} THEN mapItem(r)
    ELSE IF r.type = "item.started"
         THEN IF r.item = "object" /\ r.itemType = "command_execution"
              THEN Mapped("command") ELSE MappedNull
    ELSE IF r.type = "turn.completed" THEN Mapped("end")
    ELSE MappedNull

\* the parsers applied to one standard output and to one line
NoPure ==
    [stdout |-> <<>>, parsed |-> FALSE, result |-> parseOutput(<<>>),
     mappedLine |-> FALSE, mapped |-> MappedNull,
     line |-> Raw(FALSE, "", "", "absent", "", "", "absent", "absent")]

(***************************************************************************)
(* The stdout handler of spawnCodex.  Text is a sequence of characters.     *)
(*   todo        what the tool has written and the handler has not yet      *)
(*               received                                                   *)
(*   stdout      the local stdout, every chunk received so far              *)
(*   lineBuffer  the local lineBuffer                                       *)
(*   delivered   the lines passed to options.onLine, in order, each with    *)
(*               whether the callback threw                                 *)
(*   atExit      how many lines had been delivered when the exit handler    *)
(*               ran                                                        *)
(*   exited      the exit handler has run                                   *)
(*   result      the stdout the promise resolved with                       *)
(***************************************************************************)
IdlePipe ==
    [todo |-> <<>>, stdout |-> <<>>, lineBuffer |-> <<>>, delivered |-> <<>>,
     atExit |-> 0, exited |-> FALSE, result |-> <<>>]

(***************************************************************************)
(* Two supervisor processes that use one project root.  Each has its own    *)
(* ProjectStore; the table file and the temp file are shared.               *)
(*   loaded    ProjectStore.loaded of the process                           *)
(*   sessions  ProjectStore.sessions of the process                         *)
(*   pc        "idle", or the step its doSave is at: "write", "writing",    *)
(*             "rename"                                                     *)
(***************************************************************************)
Peers == {"A", "B"}

IdlePeers == [p \in Peers |-> [loaded |-> FALSE, sessions |-> EmptyTable, pc |-> "idle"]]

(***************************************************************************)
(* Supervisor instances (separate OS processes) configured with one port.   *)
(*   alive    the process is running                                       *)
(*   server   this.server is non-null                                      *)
(*   mode     this.mode: "disabled", "server" (hub) or "client" (forwarder) *)
(*   clients  this.clients, the viewers connected to /events               *)
(***************************************************************************)
NInstances == 3
Instances == 1..NInstances
Viewers == {"v1"}

FreshInstance == [alive |-> TRUE, server |-> FALSE, mode |-> "disabled", clients |-> {}]

InitStoreVars ==
    /\ disk \in {AbsentFile, CorruptFile} \cup {TableFile(t) : t \in OldTables}
    /\ tmp = AbsentFile
    /\ sessions = EmptyTable
    /\ loaded = FALSE
    /\ writeQueue = <<>>
    /\ saveStep = "mkdir"
    /\ calls = [c \in CallIds |-> IdleCall]
    /\ now = 1

InitFwdVars ==
    /\ ingestQueue = <<>>
    /\ ingestRetryTimer = FALSE
    /\ flushes = [waiting |-> 0, posts |-> <<>>, timers |-> 0]
    /\ hubLog = <<>>
    /\ nextEvent = 1
    /\ mode = "client"

InitHubVars ==
    /\ inst = [i \in Instances |-> FreshInstance]
    /\ portOwner = 0

InitRunVars == run \in RunConfigs

\* no run of the orchestrator is modelled: the configuration without signal and timeout
NoRun == run = CHOOSE r \in RunConfigs :
                 r.signal = "absent" /\ ~r.timeout /\ ~r.isWindows /\ ~r.viaShell

InitToolVars == inv = [i \in Invocations |-> IdleInvocation]

\* the supervisor has started and serves tool calls
InitLifeVars == sup = [pc |-> "serving", lives |-> 0]

InitCastVars == cast = IdleCast

InitOpsVars == ops = NoOp

InitProjVars == proj = IdleProj

InitPureVars == pure = NoPure

InitPipeVars == pipe = IdlePipe

InitPeerVars == peers = IdlePeers

InitStore ==
    /\ InitStoreVars /\ InitFwdVars /\ InitHubVars /\ NoRun /\ InitToolVars /\ InitLifeVars
    /\ InitCastVars /\ InitOpsVars /\ InitProjVars /\ InitPureVars
    /\ InitPipeVars /\ InitPeerVars

NextStore ==
    \/ \E c \in CallIds, id \in Ids, st \in {"completed", "abandoned"} :
         Call(c, "track", id, st)
    \/ \E c \in CallIds, id \in Ids, st \in Statuses :
         Call(c, "updateStatus", id, st)
    \/ \E c \in CallIds : LoadDone(c)
    \/ SaveMkdir
    \/ SaveWrite
    \/ SaveWritten
    \/ SaveRename
    \/ Tick

SpecStore == InitStore /\ [][NextStore]_vars

AllSettled == \A c \in CallIds : calls[c].pc = "done"
DistinctIds == \A c, d \in CallIds : c /= d => calls[c].id /= calls[d].id

\* C1: after N concurrent track / updateStatus calls with distinct identifiers have all
\* settled, every call that wrote a record finds it in the cache and in the table on
\* disk (no lost update).
C1_NoLostUpdates ==
    (AllSettled /\ DistinctIds) =>
        \A c \in CallIds :
            calls[c].applied =>
                /\ calls[c].id \in DOMAIN sessions
                /\ sessions[calls[c].id].status = calls[c].status
                /\ disk.kind = "ok"
                /\ calls[c].id \in DOMAIN disk.table
                /\ disk.table[calls[c].id].status = calls[c].status

(***************************************************************************)
(* The forwarder: enqueueIngest / flushIngestQueue / postIngest of an       *)
(* instance in client mode.  Events are numbered in emit order.            *)
(*   flushes.waiting  flushIngestQueue calls chained on ingestInFlight     *)
(*                    that have not started yet                            *)
(*   flushes.posts    the postIngest requests in flight, each              *)
(*                    [ev, chained]: the event posted, and whether the     *)
(*                    flush awaiting it is the one ingestInFlight runs     *)
(*   flushes.timers   the setTimeout callbacks not yet fired               *)
(***************************************************************************)
MaxEvents == 3
MaxQueue == 2
MaxPosts == 3

\* enqueueIngest dropping the newest events beyond the cap instead of the oldest
pushKeepOldest(q, e) ==
    LET q1 == Append(q, e)
    IN IF Len(q1) > MaxQueue THEN SubSeq(q1, 1, MaxQueue) ELSE q1

\* enqueueIngest lines 144-147: push, then drop the oldest beyond the cap
pushBounded(q, e) ==
    LET q1 == Append(q, e)
    IN IF Len(q1) > MaxQueue
       THEN SubSeq(q1, Len(q1) - MaxQueue + 1, Len(q1))
       ELSE q1

chainedRunning(f) == \E k \in 1..Len(f.posts) : f.posts[k].chained

\* ingestInFlight: the chained flushes start one after another; one that starts while
\* the retry timer is set or the queue is empty returns at once, and so do those after it.
\* Otherwise it posts the head of the queue.
startChained(f, q, timerSet) ==
    IF f.waiting = 0 \/ chainedRunning(f)
    THEN f
    ELSE IF timerSet \/ q = <<>>
         THEN [f EXCEPT !.waiting = 0]
         ELSE [f EXCEPT !.waiting = f.waiting - 1,
                        !.posts = Append(f.posts, [ev |-> Head(q), chained |-> TRUE])]

RemoveAt(seq, k) == SubSeq(seq, 1, k - 1) \o SubSeq(seq, k + 1, Len(seq))

\* emit(event) in client mode
Emit ==
    /\ mode = "client"
    /\ nextEvent <= MaxEvents
    /\ Len(flushes.posts) < MaxPosts
    /\ LET q == pushBounded(ingestQueue, nextEvent)
           f == [flushes EXCEPT !.waiting = flushes.waiting + 1]
       IN /\ ingestQueue' = q
          /\ flushes' = startChained(f, q, ingestRetryTimer)
    /\ nextEvent' = nextEvent + 1
    /\ UNCHANGED <<ingestRetryTimer, hubLog, mode, notFwd>>

\* the hub answers 204 to the post in flight at position k: the flush awaiting it
\* shifts the queue and posts the new head, or returns when the queue is empty
PostAccepted(k) ==
    /\ k \in 1..Len(flushes.posts)
    /\ LET p == flushes.posts[k]
           q == IF ingestQueue = <<>> THEN <<>> ELSE Tail(ingestQueue)
           rest == [flushes EXCEPT !.posts = RemoveAt(flushes.posts, k)]
       IN /\ hubLog' = Append(hubLog, p.ev)
          /\ ingestQueue' = q
          /\ flushes' =
                IF q /= <<>>
                THEN [rest EXCEPT !.posts = Append(rest.posts,
                                      [ev |-> Head(q), chained |-> p.chained])]
                ELSE IF p.chained THEN startChained(rest, q, ingestRetryTimer)
                     ELSE rest
    /\ UNCHANGED <<ingestRetryTimer, nextEvent, mode, notFwd>>

\* the post in flight at position k fails: the flush arms the retry timer and returns
PostFailed(k) ==
    /\ k \in 1..Len(flushes.posts)
    /\ LET p == flushes.posts[k]
           rest == [flushes EXCEPT !.posts = RemoveAt(flushes.posts, k),
                                   !.timers = flushes.timers + 1]
       IN flushes' = IF p.chained THEN startChained(rest, ingestQueue, TRUE) ELSE rest
    /\ ingestRetryTimer' = TRUE
    /\ UNCHANGED <<ingestQueue, hubLog, nextEvent, mode, notFwd>>

\* a retry timer fires: ingestRetryTimer = null, then flushIngestQueue outside the chain
RetryTimerFires ==
    /\ flushes.timers > 0
    /\ ingestRetryTimer' = FALSE
    /\ flushes' =
          LET f == [flushes EXCEPT !.timers = flushes.timers - 1]
          IN IF ingestQueue = <<>>
             THEN f
             ELSE [f EXCEPT !.posts = Append(f.posts,
                                [ev |-> Head(ingestQueue), chained |-> FALSE])]
    /\ UNCHANGED <<ingestQueue, hubLog, nextEvent, mode, notFwd>>

\* stop() on the forwarder: the timer ingestRetryTimer refers to is cleared and the
\* queue is emptied; requests in flight and flushes waiting on them are left alone
StopForwarder ==
    /\ mode = "client"
    /\ mode' = "disabled"
    /\ ingestRetryTimer' = FALSE
    /\ ingestQueue' = <<>>
    /\ flushes' = IF ingestRetryTimer
                  THEN [flushes EXCEPT !.timers = flushes.timers - 1]
                  ELSE flushes
    /\ UNCHANGED <<hubLog, nextEvent, notFwd>>

InitFwd ==
    /\ InitStoreVars /\ InitFwdVars /\ InitHubVars /\ NoRun /\ InitToolVars /\ InitLifeVars
    /\ InitCastVars /\ InitOpsVars /\ InitProjVars /\ InitPureVars
    /\ InitPipeVars /\ InitPeerVars
    /\ disk = AbsentFile

NextFwd ==
    \/ Emit
    \/ \E k \in 1..MaxPosts : PostAccepted(k)
    \/ \E k \in 1..MaxPosts : PostFailed(k)
    \/ RetryTimerFires
    \/ StopForwarder

SpecFwd == InitFwd /\ [][NextFwd]_vars

\* C3: deliveries are strictly sequential and in enqueue order: never two delivery
\* requests in flight, and the hub receives the events in increasing order, none twice.
C3_SequentialInOrder ==
    /\ Len(flushes.posts) <= 1
    /\ \A a, b \in 1..Len(hubLog) : a < b => hubLog[a] < hubLog[b]

(***************************************************************************)
(* Hub election: ProgressServer.start / stop and process exit              *)
(***************************************************************************)
\* start(): listen succeeds when the port is free, else EADDRINUSE makes a forwarder
start(i) ==
    /\ inst[i].alive
    /\ ~inst[i].server
    /\ IF portOwner = 0
       THEN /\ inst' = [inst EXCEPT ![i].server = TRUE, ![i].mode = "server"]
            /\ portOwner' = i
       ELSE /\ inst' = [inst EXCEPT ![i].server = FALSE, ![i].mode = "client"]
            /\ UNCHANGED portOwner
    /\ UNCHANGED notHub

\* start(): listen fails with another error; the promise rejects, this.server stays set
startRejected(i) ==
    /\ inst[i].alive
    /\ ~inst[i].server
    /\ inst' = [inst EXCEPT ![i].server = TRUE]
    /\ UNCHANGED <<portOwner, notHub>>

\* stop(): end the viewers, close the server, mode = "disabled"
stop(i) ==
    /\ inst[i].alive
    /\ inst' = [inst EXCEPT ![i].clients = {}, ![i].server = FALSE,
                            ![i].mode = "disabled"]
    /\ portOwner' = IF portOwner = i THEN 0 ELSE portOwner
    /\ UNCHANGED notHub

\* the process of instance i exits: the operating system releases its port
processExit(i) ==
    /\ inst[i].alive
    /\ inst' = [inst EXCEPT ![i].alive = FALSE, ![i].clients = {}]
    /\ portOwner' = IF portOwner = i THEN 0 ELSE portOwner
    /\ UNCHANGED notHub

\* handleRequest, /events: a viewer connects to the instance bound to the port
viewerConnects(v) ==
    /\ portOwner /= 0
    /\ v \notin inst[portOwner].clients
    /\ inst' = [inst EXCEPT ![portOwner].clients = @ \cup {v}]
    /\ UNCHANGED <<portOwner, notHub>>

\* req.on("close"): the viewer's connection closes
viewerCloses(i, v) ==
    /\ v \in inst[i].clients
    /\ inst' = [inst EXCEPT ![i].clients = @ \ {v}]
    /\ UNCHANGED <<portOwner, notHub>>

InitHub ==
    /\ InitStoreVars /\ InitFwdVars /\ InitHubVars /\ NoRun /\ InitToolVars /\ InitLifeVars
    /\ InitCastVars /\ InitOpsVars /\ InitProjVars /\ InitPureVars
    /\ InitPipeVars /\ InitPeerVars
    /\ disk = AbsentFile

NextHub ==
    \/ \E i \in Instances : start(i)
    \/ \E i \in Instances : startRejected(i)
    \/ \E i \in Instances : stop(i)
    \/ \E i \in Instances : processExit(i)
    \/ \E v \in Viewers : viewerConnects(v)
    \/ \E i \in Instances, v \in Viewers : viewerCloses(i, v)

SpecHub == InitHub /\ [][NextHub]_vars

\* the started instances still running, and the hubs among them
Running == {i \in Instances : inst[i].alive /\ inst[i].mode /= "disabled"}
Hubs == {i \in Running : inst[i].mode = "server"}

\* C4: whenever a started instance is running, exactly one running instance is the hub
\* and all the others are forwarders.
C4_ExactlyOneHub ==
    Running /= {} =>
        /\ Cardinality(Hubs) = 1
        /\ \A i \in Running \ Hubs : inst[i].mode = "client"

(***************************************************************************)
(* The process orchestrator: CodexExecutor.executeWrite and spawnCodex     *)
(***************************************************************************)
\* a settled promise ignores later resolve / reject calls
settle(r, outcome) == IF r.outcome.kind = "pending" THEN outcome ELSE r.outcome

\* lines 191-200 and 247-255: taskkill /T /F on Windows, SIGTERM to the handle otherwise
kill(r) ==
    IF r.proc /= "running" THEN r.killed
    ELSE IF r.isWindows THEN "tree"
    ELSE IF r.killed = "tree" THEN "tree" ELSE "handle"

\* checkCodexInstalled rejects: `codex --version` fails
checkFails ==
    /\ run.pc = "checking"
    /\ run' = [run EXCEPT !.pc = "notSpawned",
                          !.outcome = Rejected(createError("CODEX_NOT_FOUND", "not found"))]
    /\ UNCHANGED notRun

\* checkCodexInstalled resolves and spawnCodex runs up to the return of the promise
spawnCodex ==
    /\ run.pc = "checking"
    /\ IF run.signal = "fired"
       THEN run' = [run EXCEPT !.pc = "notSpawned",
                       !.outcome = Rejected(createError("CODEX_EXECUTION_FAILED",
                                                        "aborted before start"))]
       ELSE run' = [run EXCEPT !.pc = "spawned",
                       !.proc = "running",
                       !.child = IF run.viaShell THEN "running" ELSE "none",
                       !.listener = (run.signal = "armed"),
                       !.timer = IF run.timeout THEN "armed" ELSE "none"]
    /\ UNCHANGED notRun

\* child.on("error"): the process could not be spawned
spawnError ==
    /\ run.pc = "checking"
    /\ run.signal /= "fired"
    /\ run' = [run EXCEPT !.pc = "notSpawned",
                  !.outcome = Rejected(createError("CODEX_EXECUTION_FAILED", "spawn error"))]
    /\ UNCHANGED notRun

\* the caller's cancellation signal fires; onAbort runs when its listener is registered
signalFires ==
    /\ run.signal = "armed"
    /\ IF run.listener
       THEN run' = [run EXCEPT !.signal = "fired", !.listener = FALSE,
                       !.aborted = TRUE, !.killed = kill(run),
                       !.first = IF run.first = "none" THEN "abort" ELSE run.first]
       ELSE run' = [run EXCEPT !.signal = "fired"]
    /\ UNCHANGED notRun

\* the timeout timer fires: kill, then reject with CODEX_TIMEOUT
timerFires ==
    /\ run.timer = "armed"
    /\ run' = [run EXCEPT !.timer = "fired", !.killed = kill(run),
                  !.first = IF run.first = "none" THEN "timer" ELSE run.first,
                  !.outcome = settle(run, Rejected(createError("CODEX_TIMEOUT", "timed out")))]
    /\ UNCHANGED notRun

\* the tool process below the shell exits, by itself or ended by taskkill
childExits ==
    /\ run.child = "running"
    /\ run' = [run EXCEPT !.child = "exited"]
    /\ UNCHANGED notRun

\* child.on("exit"): the spawned process exits, after the tool it waits for or when
\* it was asked to end
procExits(code) ==
    /\ run.proc = "running"
    /\ run.child /= "running" \/ run.killed /= "none"
    /\ run' = [run EXCEPT !.proc = "exited",
                  !.timer = IF run.timer = "armed" THEN "cleared" ELSE run.timer,
                  !.listener = FALSE,
                  !.outcome = settle(run,
                      IF run.aborted
                      THEN Rejected(createError("CODEX_EXECUTION_FAILED", "aborted"))
                      ELSE Resolved(code))]
    /\ UNCHANGED notRun

InitRun ==
    /\ InitStoreVars /\ InitFwdVars /\ InitHubVars /\ InitRunVars /\ InitToolVars /\ InitLifeVars
    /\ InitCastVars /\ InitOpsVars /\ InitProjVars /\ InitPureVars
    /\ InitPipeVars /\ InitPeerVars
    /\ disk = AbsentFile

NextRun ==
    \/ checkFails
    \/ spawnCodex
    \/ spawnError
    \/ signalFires
    \/ timerFires
    \/ childExits
    \/ \E code \in ExitCodes : procExits(code)

SpecRun == InitRun /\ [][NextRun]_vars

Settled == run.outcome.kind /= "pending"

\* C5: with signal and timeout both armed, the reported failure is that of whichever
\* fired first: cancelled when the signal fired first, timeout when the timer did.
C5_FirstFiredDecides ==
    Settled =>
        /\ run.first = "abort" =>
              /\ run.outcome.kind = "rejected"
              /\ run.outcome.error.message = "aborted"
        /\ run.first = "timer" =>
              /\ run.outcome.kind = "rejected"
              /\ run.outcome.error.code = "CODEX_TIMEOUT"

\* C6: a timeout is reported as a recoverable timeout-kind error, and once it is
\* reported neither the spawned process nor a child of it is running.
C6_TimeoutStopsTree ==
    (Settled /\ run.timer = "fired") =>
        /\ run.outcome.kind = "rejected"
        /\ run.outcome.error.code = "CODEX_TIMEOUT"
        /\ run.outcome.error.recoverable
        /\ run.proc /= "running"
        /\ run.child /= "running"

\* a run the cancellation signal ended: it fired first during the run, or was set
\* before the spawn
CancelledRun ==
    /\ Settled
    /\ \/ run.first = "abort"
       \/ run.pc = "notSpawned" /\ run.signal = "fired"
             /\ run.outcome.error.message = "aborted before start"

\* C7: a run ended by the cancellation signal (fired during the run, or set before the
\* spawn) fails with an error kind of its own, other than execution-failed and
\* timeout, that is flagged not recoverable.
C7_CanceledKind ==
    CancelledRun =>
        /\ run.outcome.kind = "rejected"
        /\ run.outcome.error.code \notin {"CODEX_EXECUTION_FAILED", "CODEX_TIMEOUT"}
        /\ ~run.outcome.error.recoverable

(***************************************************************************)
(* The tools: codexExec, codexTdd, codexReview (single review)             *)
(***************************************************************************)
notTool == <<disk, tmp, loaded, writeQueue, saveStep, calls, now, fwdVars, hubVars, runVars,
             lifeVars, castVars, opsVars, projVars, pureVars, pipeVars, peerVars>>

\* the `type` the tool gives the record it tracks
trackedType(tool) == IF tool = "tdd" THEN "write" ELSE tool

\* a tracking that ignores the exit code
trackedStatusAlwaysCompleted(exitCode) == "completed"

\* `result.exitCode !== 0 ? "abandoned" : "completed"`
trackedStatus(exitCode) == IF exitCode /= 0 THEN "abandoned" ELSE "completed"

stdoutOf(v) == SubSeq(Scripts[v.script], 1, v.pos)

\* `parsed.sessionId || params.sessionId`
resultSessionId(v) ==
    LET parsed == parseOutput(stdoutOf(v))
    IN IF parsed.sessionId /= "" THEN parsed.sessionId ELSE v.sessionId

\* the identifier of the record an invocation writes: params.sessionId on a resume,
\* the identifier the tool announces otherwise
writtenId(sid, script) ==
    IF sid /= "" THEN sid ELSE parsedSessionId(rawEvents(Scripts[script]))

inProgress(v) == v.pc \notin {"idle", "returned"}

\* the tool is called: startOperation, then updateStatus(sessionId, "active") on a resume
begin(i, tool, sid, script) ==
    /\ inv[i].pc = "idle"
    /\ \A j \in Invocations : j < i => inv[j].pc /= "idle"
    /\ LET clash(j) == /\ j /= i
                        /\ inv[j].pc /= "idle"
                        /\ writtenId(inv[j].sessionId, inv[j].script) = writtenId(sid, script)
       IN inv' = [j \in Invocations |->
                    IF j = i
                    THEN [inv[i] EXCEPT !.pc = "checking", !.tool = tool,
                                        !.sessionId = sid, !.script = script,
                                        !.events = <<startOperation("instruction")>>,
                                        !.shared = \E k \in Invocations :
                                                      clash(k) /\ inProgress(inv[k])]
                    ELSE IF clash(j) THEN [inv[j] EXCEPT !.shared = TRUE]
                    ELSE inv[j]]
    /\ sessions' = IF sid /= "" THEN updateStatusMap(sessions, sid, "active", now)
                   ELSE sessions
    /\ UNCHANGED notTool

\* the value the tool call returns: the catch block's result when an error was
\* caught, the result of the exited run otherwise
returned(v) ==
    [v EXCEPT !.pc = "returned",
              !.result = IF v.caught /= NoError
                         THEN errorResult(v.tool, v.sessionId, v.caught)
                         ELSE exitResult(v.tool, resultSessionId(v),
                                         parseOutput(stdoutOf(v)), v.outcome.exitCode)]

\* what follows the settling of executeWrite / executeReview, up to the next save that
\* is awaited: the finally block's endOperation, then parseOutput and the first
\* tracking call, or the catch block's updateStatus(sessionId, "abandoned").  A
\* markResumed / updateStatus on an identifier without record awaits no save.
afterExecute(i, v, outcome) ==
    LET ended == [v EXCEPT !.outcome = outcome,
                    !.events = Append(v.events,
                        endOperation(outcome.kind = "resolved" /\ outcome.exitCode = 0))]
        sid == resultSessionId(v)
        caught == IF outcome.kind = "rejected" THEN outcome.error
                  ELSE IF sid = "" THEN InvalidOutput
                  ELSE NoError
        failed == [ended EXCEPT !.caught = caught]
    IN IF caught /= NoError
       THEN IF v.sessionId \in DOMAIN sessions
            THEN /\ inv' = [inv EXCEPT ![i] = [failed EXCEPT !.pc = "failing"]]
                 /\ sessions' = updateStatusMap(sessions, v.sessionId, "abandoned", now)
            ELSE /\ inv' = [inv EXCEPT ![i] = returned(failed)]
                 /\ UNCHANGED sessions
       ELSE IF v.sessionId /= ""
       THEN IF v.sessionId \in DOMAIN sessions
            THEN /\ inv' = [inv EXCEPT ![i] = [ended EXCEPT !.pc = "resumed"]]
                 /\ sessions' = markResumedMap(sessions, v.sessionId, now)
            ELSE /\ inv' = [inv EXCEPT ![i] = returned(ended)]
                 /\ UNCHANGED sessions
       ELSE /\ inv' = [inv EXCEPT ![i] = [ended EXCEPT !.pc = "ending"]]
            /\ sessions' = MapSet(sessions, sid,
                              TrackedSession(sid, trackedType(v.tool), now,
                                             trackedStatus(outcome.exitCode)))

\* checkCodexInstalled rejects
toolNotFound(i) ==
    /\ inv[i].pc = "checking"
    /\ afterExecute(i, inv[i], Rejected(createError("CODEX_NOT_FOUND", "not found")))
    /\ UNCHANGED notTool

\* spawnCodex rejects without a running process: the signal was already aborted, or
\* the spawn failed
spawnFails(i, message) ==
    /\ inv[i].pc = "checking"
    /\ afterExecute(i, inv[i], Rejected(createError("CODEX_EXECUTION_FAILED", message)))
    /\ UNCHANGED notTool

\* the tool process is spawned
spawned(i) ==
    /\ inv[i].pc = "checking"
    /\ inv' = [inv EXCEPT ![i].pc = "running", ![i].proc = TRUE]
    /\ UNCHANGED <<sessions, notTool>>

\* the process writes its next line: onLine maps it and emits the event, if any
writesLine(i) ==
    /\ inv[i].proc
    /\ inv[i].pos < Len(Scripts[inv[i].script])
    /\ LET l == Scripts[inv[i].script][inv[i].pos + 1]
           e == mapCodexLineToProgressEvent(l)
       IN inv' = [inv EXCEPT ![i].pos = @ + 1,
                             ![i].events = IF e = NoEvent THEN @ ELSE Append(@, e)]
    /\ UNCHANGED <<sessions, notTool>>

\* the process exits while the run is pending: the exit handler rejects when the
\* signal had fired and resolves with the exit code otherwise
processExits(i, code, aborted) ==
    /\ inv[i].pc = "running"
    /\ afterExecute(i, [inv[i] EXCEPT !.proc = FALSE],
                    IF aborted
                    THEN Rejected(createError("CODEX_EXECUTION_FAILED", "aborted"))
                    ELSE Resolved(code))
    /\ UNCHANGED notTool

\* the timeout timer fires while the process runs
timesOut(i) ==
    /\ inv[i].pc = "running"
    /\ afterExecute(i, inv[i], Rejected(createError("CODEX_TIMEOUT", "timed out")))
    /\ UNCHANGED notTool

\* the process exits after the run was settled by the timer
exitsLate(i) ==
    /\ inv[i].proc
    /\ inv[i].pc /= "running"
    /\ inv' = [inv EXCEPT ![i].proc = FALSE]
    /\ UNCHANGED <<sessions, notTool>>

\* markResumed has saved: updateStatus(params.sessionId, trackedStatus)
finalStatus(i) ==
    /\ inv[i].pc = "resumed"
    /\ sessions' = updateStatusMap(sessions, inv[i].sessionId,
                                   trackedStatus(inv[i].outcome.exitCode), now)
    /\ inv' = [inv EXCEPT ![i].pc = "ending"]
    /\ UNCHANGED notTool

\* the last save has completed: the tool call returns its result
returns(i) ==
    /\ inv[i].pc \in {"ending", "failing"}
    /\ inv' = [inv EXCEPT ![i] = returned(inv[i])]
    /\ UNCHANGED <<sessions, notTool>>

\* the table the tools start from: s1 is tracked, s2 is not
TrackedAtStart == MapSet(EmptyTable, "s1", TrackedSession("s1", "write", 1, "completed"))

InitTool ==
    /\ disk = TableFile(TrackedAtStart)
    /\ tmp = AbsentFile
    /\ sessions = TrackedAtStart
    /\ loaded = TRUE
    /\ writeQueue = <<>>
    /\ saveStep = "mkdir"
    /\ calls = [c \in CallIds |-> IdleCall]
    /\ now = 1
    /\ InitFwdVars /\ InitHubVars /\ NoRun /\ InitToolVars /\ InitLifeVars
    /\ InitCastVars /\ InitOpsVars /\ InitProjVars /\ InitPureVars
    /\ InitPipeVars /\ InitPeerVars

NextTool ==
    \/ \E i \in Invocations, tool \in Tools, sid \in {"", "s1", "s2"},
          script \in 1..Len(Scripts) : begin(i, tool, sid, script)
    \/ \E i \in Invocations : toolNotFound(i)
    \/ \E i \in Invocations, m \in {"aborted before start", "spawn error"} :
          spawnFails(i, m)
    \/ \E i \in Invocations : spawned(i)
    \/ \E i \in Invocations : writesLine(i)
    \/ \E i \in Invocations, code \in ExitCodes, aborted \in BOOLEAN :
          processExits(i, code, aborted)
    \/ \E i \in Invocations : timesOut(i)
    \/ \E i \in Invocations : exitsLate(i)
    \/ \E i \in Invocations : finalStatus(i)
    \/ \E i \in Invocations : returns(i)

SpecTool == InitTool /\ [][NextTool]_vars

(***************************************************************************)
(* Properties of the tools                                                 *)
(***************************************************************************)
\* C2: the events published with one operationId begin with exactly one event of type
\* start and contain at most one terminal event (end or error).
C2_OneStartOneTerminal ==
    \A i \in Invocations :
        inv[i].events /= <<>> =>
            /\ inv[i].events[1].type = "start"
            /\ Len(SelectSeq(inv[i].events, LAMBDA e : e.type = "start")) = 1
            /\ Len(SelectSeq(inv[i].events,
                             LAMBDA e : e.type \in {"end", "error"})) <= 1

\* C8: every returned result with success = false carries a populated error: a kind
\* and a message.
C8_FailureCarriesError ==
    \A i \in Invocations :
        (inv[i].pc = "returned" /\ ~inv[i].result.success) =>
            /\ inv[i].result.error.code /= ""
            /\ inv[i].result.error.message /= ""

C10_FailedResumeAbandoned ==
    \A i \in Invocations :
        (/\ inv[i].pc = "returned"
         /\ inv[i].sessionId \in DOMAIN sessions
         /\ ~inv[i].result.success
         /\ ~inv[i].shared) =>
            sessions[inv[i].sessionId].status = "abandoned"

\* a resume of the tracked record s1 has timed out and returned
C10_Witness ==
    \E i \in Invocations :
        /\ inv[i].pc = "returned"
        /\ inv[i].sessionId = "s1"
        /\ inv[i].caught.code = "CODEX_TIMEOUT"
        /\ ~inv[i].result.success
        /\ ~inv[i].shared
        /\ sessions["s1"].status = "abandoned"

\* C13: after an invocation has returned a result with a non-empty session identifier,
\* the session table holds a record for that identifier.
C13_ReturnedIdIsTracked ==
    \A i \in Invocations :
        (inv[i].pc = "returned" /\ inv[i].result.sessionId /= "") =>
            inv[i].result.sessionId \in DOMAIN sessions

\* C14: a viewer connected to the hub throughout receives the events a forwarder
\* relays in the order they were emitted: no event arrives after one emitted later.
C14_ViewerSeesEmitOrder ==
    \A a, b \in 1..Len(hubLog) : a < b => hubLog[a] <= hubLog[b]

(***************************************************************************)
(* The life of the supervisor process: main() loads the table and sweeps   *)
(* it, then serves tool calls; the process may stop at any step, and the   *)
(* next supervisor starts from what is on disk.                            *)
(***************************************************************************)
MaxLives == 1
MaxAge == 1

\* `session.lastResumedAt || session.createdAt`
lastActivity(r) == IF r.lastResumedAt /= 0 THEN r.lastResumedAt ELSE r.createdAt

\* a cleanup that removes one record per call, the first one it finds too old
toRemoveOnePerCall(m, maxAgeHours, t) ==
    LET old == {id \in DOMAIN m :
                  t - (IF m[id].lastResumedAt /= 0 THEN m[id].lastResumedAt
                       ELSE m[id].createdAt) > maxAgeHours}
    IN IF old = {} THEN {} ELSE {CHOOSE id \in old : TRUE}

\* a cleanup that measures the age from createdAt alone
toRemoveByCreation(m, maxAgeHours, t) ==
    {id \in DOMAIN m : t - m[id].createdAt > maxAgeHours}

\* cleanup: the identifiers with `ageHours > maxAgeHours`
toRemove(m, maxAgeHours, t) ==
    {id \in DOMAIN m : t - lastActivity(m[id]) > maxAgeHours}

\* cleanup: the cache after `store.sessions.delete(id)` of each of them
cleanupMap(m, maxAgeHours, t) ==
    [id \in (DOMAIN m) \ toRemove(m, maxAgeHours, t) |-> m[id]]

\* the caller of save() that stands for main's cleanup in the write queue
Main == 0

\* main: `await sessionManager.load()`
StartupLoad ==
    /\ sup.pc = "loading"
    /\ sessions' = loadedTable(disk)
    /\ loaded' = TRUE
    /\ sup' = [sup EXCEPT !.pc = "sweeping"]
    /\ UNCHANGED <<disk, tmp, writeQueue, saveStep, calls, now, notLife>>

\* main: cleanup(config.sessionCleanupHours) when that is a number (Null: it is not);
\* cleanup saves when it removed something
StartupSweep(hours) ==
    /\ sup.pc = "sweeping"
    /\ IF hours /= Null /\ toRemove(sessions, hours, now) /= {}
       THEN /\ sessions' = cleanupMap(sessions, hours, now)
            /\ writeQueue' = <<Main>>
            /\ saveStep' = "mkdir"
            /\ sup' = [sup EXCEPT !.pc = "saving"]
       ELSE /\ sup' = [sup EXCEPT !.pc = "serving"]
            /\ UNCHANGED <<sessions, writeQueue, saveStep>>
    /\ UNCHANGED <<disk, tmp, loaded, calls, now, notLife>>

\* main: the save of cleanup has completed; the tools are registered
StartupSaved ==
    /\ sup.pc = "saving"
    /\ writeQueue = <<>>
    /\ sup' = [sup EXCEPT !.pc = "serving"]
    /\ UNCHANGED <<storeVars, notLife>>

\* a tool calls track / updateStatus on the serving supervisor (the calls are numbered
\* in the order they are made)
LifeCall(c, op, id, status) ==
    /\ sup.pc = "serving"
    /\ \A d \in CallIds : d < c => calls[d].pc /= "idle"
    /\ Call(c, op, id, status)

\* the supervisor process stops, at any step; the files stay as they are, and the
\* next supervisor starts with an empty cache
Crash ==
    /\ sup.lives < MaxLives
    /\ sup' = [pc |-> "loading", lives |-> sup.lives + 1]
    /\ sessions' = EmptyTable
    /\ loaded' = FALSE
    /\ writeQueue' = <<>>
    /\ saveStep' = "mkdir"
    /\ calls' = [c \in CallIds |-> IdleCall]
    /\ UNCHANGED <<disk, tmp, now, notLife>>

InitLife ==
    /\ disk \in {AbsentFile, TableFile(TrackedAtStart)}
    /\ tmp = AbsentFile
    /\ sessions = EmptyTable
    /\ loaded = FALSE
    /\ writeQueue = <<>>
    /\ saveStep = "mkdir"
    /\ calls = [c \in CallIds |-> IdleCall]
    /\ now = 1
    /\ sup = [pc |-> "loading", lives |-> 0]
    /\ InitFwdVars /\ InitHubVars /\ NoRun /\ InitToolVars
    /\ InitCastVars /\ InitOpsVars /\ InitProjVars /\ InitPureVars
    /\ InitPipeVars /\ InitPeerVars

NextLife ==
    \/ StartupLoad
    \/ \E hours \in (0..MaxAge) \cup {Null} : StartupSweep(hours)
    \/ StartupSaved
    \/ \E c \in CallIds : LifeCall(c, "track", "s2", "completed")
    \/ \E c \in CallIds, st \in {"active", "completed"} :
         LifeCall(c, "updateStatus", "s1", st)
    \/ SaveMkdir
    \/ SaveWrite
    \/ SaveWritten
    \/ SaveRename
    \/ Tick
    \/ Crash

SpecLife == InitLife /\ [][NextLife]_vars

\* the supervisor has finished its startup and no tool has called the store yet
FreshlyStarted ==
    /\ sup.pc = "serving"
    /\ \A c \in CallIds : calls[c].pc = "idle"

\* C11: in the table a freshly started supervisor works with, after its startup load
\* and sweep, no record has status active.
C11_NoActiveAcrossRestart ==
    FreshlyStarted => \A id \in DOMAIN sessions : sessions[id].status /= "active"

\* C12: at every instant, also after the supervisor stopped at any step of a save,
\* the table file is absent or holds one complete table: the cache as one doSave
\* serialized it, every record under its own identifier.
C12_TableNeverPartial ==
    /\ disk.kind \in {"absent", "ok"}
    /\ \A id \in DOMAIN disk.table : disk.table[id].sessionId = id

\* a supervisor stopped while writeFile was writing the temp file: the next one runs
\* with the unfinished temp file left behind and a whole table file
C12_Witness ==
    /\ sup.lives > 0
    /\ sup.pc = "serving"
    /\ writeQueue = <<>>
    /\ tmp.kind = "partial"
    /\ disk.kind = "ok"

(***************************************************************************)
(* Properties of stop()                                                    *)
(***************************************************************************)
\* C17: once stop() has returned on a forwarder the pending queue is empty and no
\* retry timer is pending, and this stays true afterwards, also when a delivery
\* request was in flight when stop() was called.
C17_StopIsFinal ==
    mode = "disabled" =>
        /\ ingestQueue = <<>>
        /\ ~ingestRetryTimer
        /\ flushes.timers = 0

(***************************************************************************)
(* The hub's broadcast: GET /events, emit in server mode, POST /ingest.     *)
(***************************************************************************)
MaxFrames == 3

Events ==
    { eventObject("t1", "op1", "start", "[write] x"),
      eventObject("t2", "op1", "message", "") }

\* the bodies postIngest sends: JSON.stringify(event)
Forwarded == {JSONstringify(e) : e \in Events}

WithoutKey(text, k) ==
    [text EXCEPT !.members = SelectSeq(text.members, LAMBDA m : m.key /= k)]

WithNumber(text, k) ==
    [text EXCEPT !.members =
        [i \in 1..Len(text.members) |->
            IF text.members[i].key = k
            THEN [key |-> k, val |-> Num("7")]
            ELSE text.members[i]]]

WithMember(text, k, val) ==
    [text EXCEPT !.members = Append(text.members, [key |-> k, val |-> val])]

Sample == JSONstringify(eventObject("t1", "op1", "start", "[write] x"))

\* the request bodies an ingest request may carry
Bodies ==
    Forwarded
    \cup {WithMember(Sample, "note", Str("n")), WithMember(Sample, "content", Str("y"))}
    \cup {WithoutKey(Sample, k) : k \in EventKeySet}
    \cup {WithNumber(Sample, k) : k \in EventKeySet}
    \cup {JSONstringify(NullValue), JSONstringify(ArrayValue),
          [json |-> TRUE, top |-> "object", members |-> <<>>],
          [Sample EXCEPT !.json = FALSE]}

NoLast == IdleCast.last

Snapshot(c, src, body, status) ==
    [src |-> src, body |-> body, status |-> status,
     clients |-> c.clients, dead |-> c.dead, streams |-> c.streams]

\* an emitToSseClients that stops after the first client it wrote to
emitToOneClient(c, event) ==
    LET data == JSONstringify(event)
        live == c.clients \ c.dead
        first == IF live = {} THEN {} ELSE {CHOOSE v \in live : TRUE}
    IN [c EXCEPT !.streams = [v \in CastViewers |->
                                 IF v \in first
                                 THEN Append(c.streams[v], ProgressFrame(data))
                                 ELSE c.streams[v]],
                 !.clients = live,
                 !.dead = {}]

\* emitToSseClients: one frame to every client whose connection has not ended, the
\* others leave the set
emitToSseClients(c, event) ==
    LET data == JSONstringify(event)
        live == c.clients \ c.dead
    IN [c EXCEPT !.streams = [v \in CastViewers |->
                                 IF v \in live
                                 THEN Append(c.streams[v], ProgressFrame(data))
                                 ELSE c.streams[v]],
                 !.clients = live,
                 !.dead = {}]

\* the end handler of POST /ingest: the status answered and the broadcast state
handleIngest(c, body) ==
    IF ~body.json
    THEN [status |-> 400, cast |-> c]
    ELSE LET parsed == JSONparse(body)
         IN IF ~isProgressEvent(parsed)
            THEN [status |-> 400, cast |-> c]
            ELSE [status |-> 204, cast |-> emitToSseClients(c, parsed)]

notCast == <<storeVars, fwdVars, hubVars, runVars, toolVars, lifeVars, opsVars, projVars,
            pureVars, pipeVars, peerVars>>

RoomInStreams == \A v \in CastViewers : Len(cast.streams[v]) < MaxFrames

\* GET /events: the comment line is written and the response joins the clients
eventsRequest(v) ==
    /\ v \notin cast.clients
    /\ cast' = [cast EXCEPT !.clients = @ \cup {v},
                            !.streams[v] = <<OkComment>>,
                            !.last = NoLast]
    /\ UNCHANGED notCast

\* the viewer's connection ends; its close event has not run yet
connectionEnds(v) ==
    /\ v \in cast.clients \ cast.dead
    /\ cast' = [cast EXCEPT !.dead = @ \cup {v}, !.last = NoLast]
    /\ UNCHANGED notCast

\* req.on("close"): the response leaves the clients
closeEvent(v) ==
    /\ v \in cast.dead
    /\ cast' = [cast EXCEPT !.clients = @ \ {v}, !.dead = @ \ {v}, !.last = NoLast]
    /\ UNCHANGED notCast

\* emit(event) on the hub instance (mode server)
localEmit(e) ==
    /\ RoomInStreams
    /\ cast' = [emitToSseClients(cast, e) EXCEPT
                   !.last = Snapshot(cast, "emit", JSONstringify(e), 0)]
    /\ UNCHANGED notCast

\* POST /ingest with the given body
ingestRequest(body) ==
    /\ RoomInStreams
    /\ LET r == handleIngest(cast, body)
       IN cast' = [r.cast EXCEPT !.last = Snapshot(cast, "ingest", body, r.status)]
    /\ UNCHANGED notCast

InitCast ==
    /\ InitStoreVars /\ InitFwdVars /\ InitHubVars /\ NoRun /\ InitToolVars /\ InitLifeVars
    /\ InitCastVars /\ InitOpsVars /\ InitProjVars /\ InitPureVars
    /\ InitPipeVars /\ InitPeerVars
    /\ disk = AbsentFile

NextCast ==
    \/ \E v \in CastViewers : eventsRequest(v)
    \/ \E v \in CastViewers : connectionEnds(v)
    \/ \E v \in CastViewers : closeEvent(v)
    \/ \E e \in Events : localEmit(e)
    \/ \E body \in Bodies : ingestRequest(body)

SpecCast == InitCast /\ [][NextCast]_vars

\* the last step published an event: a local emit, or an ingest request answered 204
Published ==
    \/ cast.last.src = "emit"
    \/ cast.last.src = "ingest" /\ cast.last.status = 204

\* the viewers connected when the last request arrived
ConnectedBefore == cast.last.clients \ cast.last.dead

\* viewer v has received exactly one more frame than before the last request
OneMoreFrame(v) ==
    /\ Len(cast.streams[v]) = Len(cast.last.streams[v]) + 1
    /\ SubSeq(cast.streams[v], 1, Len(cast.last.streams[v])) = cast.last.streams[v]

NewFrame(v) == cast.streams[v][Len(cast.streams[v])]

\* C15: every event published at the hub, by a local emit or by an accepted ingest
\* request, is written exactly once to every viewer connected at that moment and to
\* no other, with the timestamp, operationId, type and content it was published
\* with; a forwarded event is written as the very text a local emit of it writes.
C15_BroadcastOnceUnchanged ==
    Published =>
        \A v \in CastViewers :
            IF v \in ConnectedBefore
            THEN /\ OneMoreFrame(v)
                 /\ NewFrame(v).event = "progress"
                 /\ NewFrame(v).data.json
                 /\ \A k \in EventKeySet :
                       lastVal(NewFrame(v).data.members, k) =
                           lastVal(cast.last.body.members, k)
                 /\ cast.last.body \in Forwarded => NewFrame(v).data = cast.last.body
            ELSE cast.streams[v] = cast.last.streams[v]

\* an accepted ingest request reached a viewer that already had a frame, while the
\* other viewer's connection had ended and its close event had not run
C15_Witness ==
    /\ cast.last.src = "ingest"
    /\ cast.last.status = 204
    /\ cast.last.dead /= {}
    /\ \E v \in ConnectedBefore : Len(cast.last.streams[v]) >= 2

\* the body is JSON text of an object in which each of the four fields is present
\* with a string value
WellFormed(text) ==
    /\ text.json
    /\ text.top = "object"
    /\ \A k \in EventKeySet :
          /\ \E i \in 1..Len(text.members) : text.members[i].key = k
          /\ \A i \in 1..Len(text.members) :
                (/\ text.members[i].key = k
                 /\ \A j \in (i + 1)..Len(text.members) : text.members[j].key /= k)
                    => text.members[i].val.t = "string"

\* C16: an ingest request whose body is not valid JSON, or lacks one of timestamp,
\* operationId, type, content, or has a non-string value for one of them, is answered
\* 400 and writes to no viewer; any other body is answered 204 and re-published to
\* every connected viewer.
C16_IngestValidates ==
    cast.last.src = "ingest" =>
        IF WellFormed(cast.last.body)
        THEN /\ cast.last.status = 204
             /\ \A v \in ConnectedBefore : OneMoreFrame(v)
        ELSE /\ cast.last.status = 400
             /\ cast.streams = cast.last.streams
             /\ cast.clients = cast.last.clients

\* a body that parses to an object and lacks a field was refused while viewers were
\* connected
C16_Witness ==
    /\ cast.last.src = "ingest"
    /\ cast.last.status = 400
    /\ cast.last.body.json
    /\ cast.last.body.top = "object"
    /\ Len(cast.last.body.members) = 3
    /\ ConnectedBefore /= {}

(***************************************************************************)
(* The store's operations called one after another on one project root,    *)
(* each awaited before the next: load, the change to the cache, and the     *)
(* save when the operation reaches it.                                     *)
(***************************************************************************)
MaxClock == 3

OpIds == {"s1", "s2"}

\* the records the tools pass to track: s1 is a write session, s2 a review session;
\* neither carries a lineage pointer, which only link sets
TrackInput(id, status, t) ==
    [sessionId |-> id, type |-> IF id = "s1" THEN "write" ELSE "review", createdAt |-> t,
     lastResumedAt |-> 0, linkedSessionId |-> "", status |-> status]

\* the cache once `await this.load(options)` has returned
loadCache == IF loaded THEN sessions ELSE loadedTable(disk)

Remember(op, id, m) ==
    [NoOp EXCEPT !.op = op, !.id = id, !.before = m, !.at = now]

notOps == <<tmp, writeQueue, saveStep, calls, fwdVars, hubVars, runVars, toolVars,
            lifeVars, castVars, projVars, pureVars, pipeVars, peerVars>>

OpTrack(id, status) ==
    /\ sessions' = trackMap(loadCache, TrackInput(id, status, now))
    /\ loaded' = TRUE
    /\ disk' = TableFile(sessions')
    /\ ops' = [Remember("track", id, loadCache) EXCEPT
                  !.rec = TrackInput(id, status, now)]
    /\ UNCHANGED <<now, notOps>>

\* link(writeSessionId, reviewSessionId): it saves whether or not a record was found
OpLink(idA, idB) ==
    /\ sessions' = linkMap(loadCache, idA, idB)
    /\ loaded' = TRUE
    /\ disk' = TableFile(sessions')
    /\ ops' = [Remember("link", idA, loadCache) EXCEPT !.rec = [NoRecord EXCEPT !.sessionId = idB]]
    /\ UNCHANGED <<now, notOps>>

OpGet(id) ==
    /\ sessions' = loadCache
    /\ loaded' = TRUE
    /\ ops' = [Remember("get", id, loadCache) EXCEPT
                  !.found = id \in DOMAIN loadCache,
                  !.got = IF id \in DOMAIN loadCache THEN loadCache[id] ELSE NoRecord,
                  !.prev = ops.op,
                  !.prevRec = ops.rec,
                  !.prevOver = /\ ops.op = "track"
                               /\ ops.id \in DOMAIN ops.before
                               /\ ops.before[ops.id] /= ops.rec]
    /\ UNCHANGED <<disk, now, notOps>>

OpUpdateStatus(id, status) ==
    /\ sessions' = updateStatusMap(loadCache, id, status, now)
    /\ loaded' = TRUE
    /\ disk' = IF id \in DOMAIN loadCache THEN TableFile(sessions') ELSE disk
    /\ ops' = [Remember("updateStatus", id, loadCache) EXCEPT !.status = status]
    /\ UNCHANGED <<now, notOps>>

OpCleanup(maxAgeHours) ==
    /\ sessions' = cleanupMap(loadCache, maxAgeHours, now)
    /\ loaded' = TRUE
    /\ disk' = IF toRemove(loadCache, maxAgeHours, now) /= {}
               THEN TableFile(sessions') ELSE disk
    /\ ops' = [Remember("cleanup", "", loadCache) EXCEPT
                  !.hours = maxAgeHours,
                  !.removed = toRemove(loadCache, maxAgeHours, now),
                  !.prev = ops.op,
                  !.prevHours = ops.hours,
                  !.prevAt = ops.at,
                  !.prevRemoved = ops.removed]
    /\ UNCHANGED <<now, notOps>>

\* time passes between two operations
OpTick ==
    /\ now < MaxClock
    /\ now' = now + 1
    /\ UNCHANGED <<disk, sessions, loaded, ops, notOps>>

InitOps ==
    /\ disk \in {AbsentFile, TableFile(TrackedAtStart)}
    /\ tmp = AbsentFile
    /\ sessions = EmptyTable
    /\ loaded = FALSE
    /\ writeQueue = <<>>
    /\ saveStep = "mkdir"
    /\ calls = [c \in CallIds |-> IdleCall]
    /\ now = 1
    /\ InitFwdVars /\ InitHubVars /\ NoRun /\ InitToolVars /\ InitLifeVars
    /\ InitCastVars /\ InitOpsVars /\ InitProjVars /\ InitPureVars
    /\ InitPipeVars /\ InitPeerVars

NextOps ==
    \/ \E id \in OpIds, status \in {"active", "completed"} : OpTrack(id, status)
    \/ \E idA \in OpIds : \E idB \in OpIds \ {idA} : OpLink(idA, idB)
    \/ \E id \in OpIds : OpGet(id)
    \/ \E id \in OpIds, status \in Statuses : OpUpdateStatus(id, status)
    \/ \E hours \in 0..MaxAge : OpCleanup(hours)
    \/ OpTick

SpecOps == InitOps /\ [][NextOps]_vars

OthersUnchanged(id) ==
    \A x \in (DOMAIN ops.before) \ {id} : x \in DOMAIN sessions /\ sessions[x] = ops.before[x]

\* C18: a get that follows the track of a record, for the record's identifier, returns
\* a record equal to the tracked one in every field; and after a track the table holds
\* exactly the tracked record under its identifier, whatever it held there before.
C18_TrackGetRoundTrip ==
    /\ (ops.op = "get" /\ ops.prev = "track" /\ ops.id = ops.prevRec.sessionId)
          => (ops.found /\ ops.got = ops.prevRec)
    /\ ops.op = "track"
          => /\ DOMAIN sessions = (DOMAIN ops.before) \cup {ops.id}
             /\ sessions[ops.id] = ops.rec
             /\ disk = TableFile(sessions)
             /\ OthersUnchanged(ops.id)

\* get after a track that replaced a different record which had been resumed
C18_Witness ==
    /\ ops.op = "get"
    /\ ops.prev = "track"
    /\ ops.id = ops.prevRec.sessionId
    /\ ops.prevOver
    /\ ops.got.lastResumedAt = 0
    /\ ops.got.type = "review"

\* C19: updateStatus(id, s) on an existing record sets its status to s and its
\* lastResumedAt to the current time and leaves its other fields and every other
\* record unchanged; on an identifier without a record it changes nothing.
C19_UpdateStatusFrame ==
    ops.op = "updateStatus" =>
        IF ops.id \in DOMAIN ops.before
        THEN /\ DOMAIN sessions = DOMAIN ops.before
             /\ sessions[ops.id].status = ops.status
             /\ sessions[ops.id].lastResumedAt = ops.at
             /\ sessions[ops.id].sessionId = ops.before[ops.id].sessionId
             /\ sessions[ops.id].type = ops.before[ops.id].type
             /\ sessions[ops.id].createdAt = ops.before[ops.id].createdAt
             /\ sessions[ops.id].linkedSessionId = ops.before[ops.id].linkedSessionId
             /\ OthersUnchanged(ops.id)
             /\ disk = TableFile(sessions)
        ELSE sessions = ops.before

\* an updateStatus changed the status of a linked review record created earlier,
\* next to another record
C19_Witness ==
    /\ ops.op = "updateStatus"
    /\ ops.id \in DOMAIN ops.before
    /\ ops.before[ops.id].status /= ops.status
    /\ ops.before[ops.id].linkedSessionId /= ""
    /\ ops.before[ops.id].type = "review"
    /\ ops.before[ops.id].createdAt < ops.at
    /\ DOMAIN ops.before = OpIds

\* the record's last activity is more than maxAgeHours before t
Older(r, maxAgeHours, t) ==
    IF r.lastResumedAt = 0
    THEN t - r.createdAt > maxAgeHours
    ELSE t - r.lastResumedAt > maxAgeHours

\* C20: cleanup(maxAgeHours) removes exactly the records whose last activity
\* (lastResumedAt, or createdAt when there is none) is older than maxAgeHours at the
\* time of the call, returns exactly their identifiers, and leaves the others unchanged.
C20_SweepRemovesExactlyOld ==
    ops.op = "cleanup" =>
        /\ ops.removed = {id \in DOMAIN ops.before : Older(ops.before[id], ops.hours, ops.at)}
        /\ DOMAIN sessions = (DOMAIN ops.before) \ ops.removed
        /\ \A id \in DOMAIN sessions : sessions[id] = ops.before[id]
        /\ disk.kind = "ok" /\ ops.removed /= {} => disk.table = sessions

\* a sweep with maxAgeHours = 1 removed one record and kept another that was created
\* more than an hour ago and resumed since
C20_Witness ==
    /\ ops.op = "cleanup"
    /\ ops.hours = 1
    /\ ops.removed /= {}
    /\ \E id \in DOMAIN sessions :
          /\ ops.at - sessions[id].createdAt > 1
          /\ sessions[id].lastResumedAt /= 0

\* the last two operations were cleanups with the same threshold
SweptTwice ==
    /\ ops.op = "cleanup"
    /\ ops.prev = "cleanup"
    /\ ops.prevHours = ops.hours

\* C21 as stated: of two cleanups in a row with the same threshold, the second removes
\* no record and returns an empty list.
C21_SecondSweepRemovesNothing ==
    SweptTwice => (ops.removed = {} /\ sessions = ops.before)

\* C21 amended: of two cleanups in a row with the same threshold that read the same
\* clock, the second removes no record and returns an empty list.
C21_SecondSweepSameClock ==
    (SweptTwice /\ ops.prevAt = ops.at) => (ops.removed = {} /\ sessions = ops.before)

\* the first of the two cleanups removed a record and left another for the second
C21_Witness ==
    /\ SweptTwice
    /\ ops.prevAt = ops.at
    /\ ops.prevRemoved /= {}
    /\ ops.before /= EmptyTable

\* the two identifiers of the last link
LinkA == ops.id
LinkB == ops.rec.sessionId

\* record id is as it was before the last operation, except perhaps for its pointer
SameButPointer(id) ==
    /\ id \in DOMAIN sessions
    /\ [sessions[id] EXCEPT !.linkedSessionId = ""] =
          [ops.before[id] EXCEPT !.linkedSessionId = ""]

\* C23: link(idA, idB) sets the pointer of record idA to idB and that of record idB to
\* idA, each only when the record exists; it creates no record and changes no other
\* field of any record.
C23_LinkSetsPointersOnly ==
    ops.op = "link" =>
        /\ DOMAIN sessions = DOMAIN ops.before
        /\ \A id \in DOMAIN ops.before :
              /\ SameButPointer(id)
              /\ sessions[id].linkedSessionId =
                    IF id = LinkA THEN LinkB
                    ELSE IF id = LinkB THEN LinkA
                    ELSE ops.before[id].linkedSessionId

\* a link of which only one record exists, and that record had been resumed
C23_Witness ==
    /\ ops.op = "link"
    /\ LinkA \notin DOMAIN ops.before
    /\ LinkB \in DOMAIN ops.before
    /\ sessions[LinkB].linkedSessionId = LinkA
    /\ sessions[LinkB].lastResumedAt /= 0

(***************************************************************************)
(* The session tools over two project roots: runs that track a new session *)
(* under a working directory, the sweep, session_discard and session_list.  *)
(* Each call is awaited before the next.                                    *)
(***************************************************************************)
\* a cleanup that also deletes the session directories of the records it removes
cleanupWithArtifacts(p, hint, maxAgeHours, t) ==
    LET root == resolveProjectRoot(hint)
    IN [p EXCEPT !.tables[root] = cleanupMap(p.tables[root], maxAgeHours, t),
                 !.artifacts = @ \ toRemove(p.tables[root], maxAgeHours, t)]

\* cleanup(maxAgeHours, {workingDirectory}): the table of the root and nothing else
cleanupUnder(p, hint, maxAgeHours, t) ==
    LET root == resolveProjectRoot(hint)
    IN [p EXCEPT !.tables[root] = cleanupMap(p.tables[root], maxAgeHours, t)]

\* track(session, {workingDirectory})
trackUnder(p, hint, rec) ==
    [p EXCEPT !.tables[resolveProjectRoot(hint)] = trackMap(@, rec)]

\* store.sessions.delete(sessionId)
removeMap(m, id) == [x \in (DOMAIN m) \ {id} |-> m[x]]

\* codexSessionDiscard for one identifier: get and remove are called without options,
\* whatever workingDirectory the tool call carried
codexSessionDiscard(p, hint, id, force) ==
    LET root == resolveProjectRoot("")
        tracked == p.tables[root]
    IN IF id \in DOMAIN tracked /\ tracked[id].status = "active" /\ ~force
       THEN [outcome |-> "failed", proj |-> p]
       ELSE [outcome |-> "discarded",
             proj |-> [p EXCEPT !.artifacts = @ \ {id},
                                !.tables[root] = removeMap(@, id)]]

\* codexSessionList: listAll() without options, then the status filter
codexSessionList(p, hint, filter) ==
    LET all == p.tables[resolveProjectRoot("")]
    IN {id \in DOMAIN all : filter = "all" \/ all[id].status = filter}

Before(op, hint) ==
    [NoProjOp EXCEPT !.op = op, !.hint = hint, !.tables = proj.tables,
                     !.artifacts = proj.artifacts]

notProj == <<disk, tmp, sessions, loaded, writeQueue, saveStep, calls, fwdVars, hubVars,
             runVars, toolVars, lifeVars, castVars, opsVars, pureVars, pipeVars, peerVars>>

Tracked == UNION {DOMAIN proj.tables[r] : r \in Roots}

\* exec / tdd / review run a new session under the hint: the external tool writes its
\* session directory, the run tracks the session with the status of its exit code
ProjRun(hint, id, exitCode) ==
    /\ id \notin proj.artifacts \cup Tracked
    /\ proj' = [trackUnder(proj, hint, TrackedSession(id, "exec", now, trackedStatus(exitCode)))
                  EXCEPT !.artifacts = @ \cup {id},
                         !.last = [Before("run", hint) EXCEPT !.id = id]]
    /\ UNCHANGED <<now, notProj>>

ProjSweep(hint, maxAgeHours) ==
    /\ proj' = [cleanupUnder(proj, hint, maxAgeHours, now)
                  EXCEPT !.last = [Before("sweep", hint) EXCEPT !.hours = maxAgeHours]]
    /\ UNCHANGED <<now, notProj>>

ProjDiscard(hint, id, force) ==
    /\ proj' = [codexSessionDiscard(proj, hint, id, force).proj
                  EXCEPT !.last = [Before("discard", hint) EXCEPT
                                      !.id = id, !.force = force,
                                      !.outcome = codexSessionDiscard(proj, hint, id, force).outcome]]
    /\ UNCHANGED <<now, notProj>>

ProjList(hint, filter) ==
    /\ proj' = [proj EXCEPT !.last = [Before("list", hint) EXCEPT
                                         !.filter = filter,
                                         !.listed = codexSessionList(proj, hint, filter)]]
    /\ UNCHANGED <<now, notProj>>

ProjTick ==
    /\ now < MaxClock
    /\ now' = now + 1
    /\ UNCHANGED <<proj, notProj>>

InitProj ==
    /\ InitStoreVars /\ InitFwdVars /\ InitHubVars /\ NoRun /\ InitToolVars /\ InitLifeVars
    /\ InitCastVars /\ InitOpsVars /\ InitProjVars /\ InitPureVars
    /\ InitPipeVars /\ InitPeerVars
    /\ disk = AbsentFile

NextProj ==
    \/ \E hint \in Hints, id \in OpIds, exitCode \in {0, 1} : ProjRun(hint, id, exitCode)
    \/ \E hint \in Hints, hours \in 0..MaxAge : ProjSweep(hint, hours)
    \/ \E hint \in Hints, id \in OpIds, force \in BOOLEAN : ProjDiscard(hint, id, force)
    \/ \E hint \in Hints, filter \in {"all", "completed"} : ProjList(hint, filter)
    \/ ProjTick

SpecProj == InitProj /\ [][NextProj]_vars

\* C22: a sweep leaves the external tool's session directories as they were, whether
\* or not it removed the session's record; and no call other than session_discard
\* removes a session directory.
C22_SweepKeepsArtifacts ==
    /\ proj.last.op = "sweep" => proj.artifacts = proj.last.artifacts
    /\ proj.last.op /= "discard" => proj.last.artifacts \subseteq proj.artifacts

\* a sweep removed the record of a session whose directory exists
C22_Witness ==
    /\ proj.last.op = "sweep"
    /\ \E r \in Roots :
          \E id \in DOMAIN proj.last.tables[r] :
              id \notin DOMAIN proj.tables[r] /\ id \in proj.artifacts

\* the table of the project root the last call's workingDirectory resolves to
TableOfHint(tables) == tables[resolveProjectRoot(proj.last.hint)]

\* C24: session_list(W) shows the sessions tracked under W's project root, and
\* session_discard(W) checks and removes the record in the table of that root.
C24_SessionToolsUseHintRoot ==
    /\ proj.last.op = "list" =>
          proj.last.listed =
              {id \in DOMAIN TableOfHint(proj.tables) :
                  proj.last.filter = "all" \/ TableOfHint(proj.tables)[id].status = proj.last.filter}
    /\ (proj.last.op = "discard" /\ proj.last.outcome = "discarded") =>
          proj.last.id \notin DOMAIN TableOfHint(proj.tables)

(***************************************************************************)
(* Properties of the forwarder's queue and back-off                        *)
(***************************************************************************)
Delivered(log) == {log[k] : k \in 1..Len(log)}

\* C29: when the hub accepts a delivery, the event that leaves the queue is the one
\* that was delivered, or one the hub has received already: an acceptance never
\* removes an event that was not yet delivered.
C29_AcceptRemovesDelivered ==
    [][(hubLog' /= hubLog /\ ingestQueue /= <<>>) =>
          Head(ingestQueue) \in Delivered(hubLog')]_vars

\* C30: at most one retry timer is pending at any time.
C30_OneRetryTimer == flushes.timers <= 1

(***************************************************************************)
(* Properties of a run without session identifier                          *)
(***************************************************************************)
\* invocation i was called without sessionId, its process exited, and its output
\* announces no session identifier
NoIdentifierAtAll(i) ==
    /\ inv[i].pc = "returned"
    /\ inv[i].sessionId = ""
    /\ inv[i].outcome.kind = "resolved"
    /\ \A k \in 1..inv[i].pos : Scripts[inv[i].script][k].type /= "thread.started"

MaxLines == 3

ParseLines ==
    { ThreadStarted("s1"), ThreadStarted("s2"), ThreadStarted(""), Junk,
      FileChange("a.txt", "add"), FileChange("a.txt", "update"), FileChange(LongPath, "add"),
      OldFileChange("b.txt", "created"), OldFileChange("b.txt", "modified"),
      OldFileChange("b.txt", "deleted"),
      AgentMessage("done", 4), AgentMessage("report", 600), AgentMessage("", 0) }

notPure == <<storeVars, fwdVars, hubVars, runVars, toolVars, lifeVars, castVars, opsVars,
             projVars, pipeVars, peerVars>>

\* the tool writes one more line
Feed(l) ==
    /\ Len(pure.stdout) < MaxLines
    /\ pure' = [NoPure EXCEPT !.stdout = Append(pure.stdout, l)]
    /\ UNCHANGED notPure

\* parseOutput(result.stdout)
Parse ==
    /\ ~pure.parsed
    /\ pure' = [pure EXCEPT !.parsed = TRUE, !.result = parseOutput(pure.stdout)]
    /\ UNCHANGED notPure

\* onLine: mapCodexLineToProgressEvent(line, operationId)
Normalize(r) ==
    /\ pure' = [NoPure EXCEPT !.mappedLine = TRUE, !.line = r, !.mapped = mapCodexLine(r)]
    /\ UNCHANGED notPure

InitParse ==
    /\ InitStoreVars /\ InitFwdVars /\ InitHubVars /\ NoRun /\ InitToolVars /\ InitLifeVars
    /\ InitCastVars /\ InitOpsVars /\ InitProjVars /\ InitPureVars
    /\ InitPipeVars /\ InitPeerVars
    /\ disk = AbsentFile

NextParse ==
    \/ \E l \in ParseLines : Feed(l)
    \/ Parse
    \/ \E r \in RawLines : Normalize(r)

SpecParse == InitParse /\ [][NextParse]_vars

\* C25: the event normalizer never throws: for every line it returns an event or null.
C25_NormalizerNeverThrows ==
    pure.mappedLine => pure.mapped.kind \in {"event", "null"}

\* C27: the summary of every parsed output is at most 500 characters long.
C27_SummaryAtMost500 ==
    pure.parsed => pure.result.summary.len <= SummaryMax

IsStart(l) == l.type = "thread.started"
IsChange(l) == l.type \in {"file_change", "file_change_old"}
Creates(l) ==
    \/ l.type = "file_change" /\ l.kind = "add"
    \/ l.type = "file_change_old" /\ l.kind = "created"
Modifies(l) ==
    \/ l.type = "file_change" /\ l.kind /= "add"
    \/ l.type = "file_change_old" /\ l.kind = "modified"
IsMessage(l) == l.type = "agent_message" /\ l.len > 0

\* the identifier of the first start event, the created paths and the messages are
\* what the claim says
SessionCreatedMessages ==
    /\ pure.result.sessionId =
          (IF \E k \in 1..Len(pure.stdout) : IsStart(pure.stdout[k])
           THEN pure.stdout[CHOOSE k \in 1..Len(pure.stdout) :
                               /\ IsStart(pure.stdout[k])
                               /\ \A j \in 1..(k - 1) : ~IsStart(pure.stdout[j])].sid
           ELSE "")
    /\ pure.result.filesCreated = Paths(SelectSeq(pure.stdout, Creates))
    /\ pure.result.agentMessages = SelectSeq(pure.stdout, IsMessage)

ScenarioA == <<ThreadStarted("s1"), FileChange("a.txt", "add"), AgentMessage("done", 4)>>

Newest(seq, n) ==
    LET m == IF Len(seq) < n THEN Len(seq) ELSE n
    IN [k \in 1..m |-> seq[Len(seq) - m + k]]

\* C31: the pending queue never holds more than the cap, and an emit leaves in it the
\* newest events, up to the cap, of the queue with the emitted event appended, in
\* enqueue order (the oldest are discarded).
C31_QueueBounded ==
    /\ [](Len(ingestQueue) <= MaxQueue)
    /\ [][nextEvent' /= nextEvent =>
             ingestQueue' = Newest(Append(ingestQueue, nextEvent), MaxQueue)]_vars

\* the queue is full and its oldest event was discarded before any delivery succeeded
C31_Witness ==
    /\ Len(ingestQueue) = MaxQueue
    /\ hubLog = <<>>
    /\ Head(ingestQueue) > 1

(***************************************************************************)
(* The write queue of a loaded project store: save() chains one doSave per  *)
(* mutating call on store.writeQueue, and a doSave may reject.              *)
(*   writeQueue   the calls whose doSave has not settled, in call order     *)
(*   calls[c].pc  "idle"; "queued" (doSave chained, not started); "mkdir",  *)
(*                "write", "writing", "rename" (the step doSave is at);     *)
(*                "done" (the call resolved after its rename); "swallowed"  *)
(*                (the call resolved after its doSave rejected and          *)
(*                `.catch(() => {})` swallowed the rejection)               *)
(***************************************************************************)
SaveSteps == {"mkdir", "write", "writing", "rename"}
Without(q, c) == SelectSeq(q, LAMBDA x : x /= c)

\* a save() that calls doSave at once, without chaining it on the write queue
thenRunsAtOnce(q, c) == TRUE

\* `store.writeQueue.then(() => this.doSave(store))`: the callback runs once every
\* doSave chained before it has settled
thenRuns(q, c) == q /= <<>> /\ Head(q) = c

\* track / updateStatus on the loaded store: the cache is changed, then save() chains
\* a doSave
SvCall(c, op, id, status) ==
    /\ calls[c].pc = "idle"
    /\ LET call == [pc |-> "queued", op |-> op, id |-> id, status |-> status,
                    applied |-> TRUE]
       IN /\ sessions' = mutate(sessions, call)
          /\ IF reachesSave(sessions, call)
             THEN /\ writeQueue' = Append(writeQueue, c)
                  /\ calls' = [calls EXCEPT ![c] = call]
             ELSE /\ UNCHANGED writeQueue
                  /\ calls' = [calls EXCEPT ![c] = [call EXCEPT !.pc = "done",
                                                                !.applied = FALSE]]
    /\ UNCHANGED <<disk, tmp, loaded, saveStep, now, notStore>>

\* the chained callback runs: doSave starts with mkdir
SvStart(c) ==
    /\ calls[c].pc = "queued"
    /\ thenRuns(writeQueue, c)
    /\ calls' = [calls EXCEPT ![c].pc = "mkdir"]
    /\ UNCHANGED <<disk, tmp, sessions, loaded, writeQueue, saveStep, now, notStore>>

\* mkdir has returned
SvMkdir(c) ==
    /\ calls[c].pc = "mkdir"
    /\ calls' = [calls EXCEPT ![c].pc = "write"]
    /\ UNCHANGED <<disk, tmp, sessions, loaded, writeQueue, saveStep, now, notStore>>

\* store.sessions is serialized as it is now; writeFile truncates the temp file
SvWrite(c) ==
    /\ calls[c].pc = "write"
    /\ tmp' = PartialFile(sessions)
    /\ calls' = [calls EXCEPT ![c].pc = "writing"]
    /\ UNCHANGED <<disk, sessions, loaded, writeQueue, saveStep, now, notStore>>

\* writeFile has written the whole content
SvWritten(c) ==
    /\ calls[c].pc = "writing"
    /\ tmp.kind = "partial"
    /\ tmp' = TableFile(tmp.table)
    /\ calls' = [calls EXCEPT ![c].pc = "rename"]
    /\ UNCHANGED <<disk, sessions, loaded, writeQueue, saveStep, now, notStore>>

\* rename of the temp file over the table; the doSave and the caller's save() resolve
SvRename(c) ==
    /\ calls[c].pc = "rename"
    /\ tmp.kind /= "absent"
    /\ disk' = tmp
    /\ tmp' = AbsentFile
    /\ writeQueue' = Without(writeQueue, c)
    /\ calls' = [calls EXCEPT ![c].pc = "done"]
    /\ UNCHANGED <<sessions, loaded, saveStep, now, notStore>>

\* mkdir, writeFile or rename rejects (disk full, permission, missing temp file): the
\* rejection is swallowed by `.catch(() => {})` and the caller's save() resolves
SvFail(c) ==
    /\ calls[c].pc \in SaveSteps
    /\ writeQueue' = Without(writeQueue, c)
    /\ calls' = [calls EXCEPT ![c].pc = "swallowed"]
    /\ UNCHANGED <<disk, tmp, sessions, loaded, saveStep, now, notStore>>

InitSave ==
    /\ InitFwdVars /\ InitHubVars /\ NoRun /\ InitToolVars /\ InitLifeVars
    /\ InitCastVars /\ InitOpsVars /\ InitProjVars /\ InitPureVars
    /\ InitPipeVars /\ InitPeerVars
    /\ disk = AbsentFile
    /\ tmp = AbsentFile
    /\ sessions = EmptyTable
    /\ loaded = TRUE
    /\ writeQueue = <<>>
    /\ saveStep = "mkdir"
    /\ calls = [c \in CallIds |-> IdleCall]
    /\ now = 1

NextSave ==
    \/ \E c \in CallIds, id \in Ids, st \in {"completed", "abandoned"} :
         SvCall(c, "track", id, st)
    \/ \E c \in CallIds, id \in Ids, st \in Statuses :
         SvCall(c, "updateStatus", id, st)
    \/ \E c \in CallIds : SvStart(c)
    \/ \E c \in CallIds : SvMkdir(c)
    \/ \E c \in CallIds : SvWrite(c)
    \/ \E c \in CallIds : SvWritten(c)
    \/ \E c \in CallIds : SvRename(c)
    \/ \E c \in CallIds : SvFail(c)

SpecSave == InitSave /\ [][NextSave]_vars

Saving(c) == calls[c].pc \in SaveSteps

\* C32: at most one save is in progress at any time, and the one in progress is that
\* of the earliest call whose save has not settled (saves run in call order), also
\* after an earlier save has failed.
C32_SavesNeverOverlap ==
    \A c \in CallIds :
        Saving(c) =>
            /\ \A d \in CallIds \ {c} : ~Saving(d)
            /\ Head(writeQueue) = c

\* a save is in progress after the save of an earlier call failed
C32_Witness ==
    \E c, d \in CallIds : calls[c].pc = "swallowed" /\ calls[d].pc = "rename"

Quiescent == \A c \in CallIds : calls[c].pc \in {"idle", "done", "swallowed"}

\* C33: whenever no mutation call is pending, the table on disk equals the cache, also
\* when a write to disk failed.
C33_DiskEqualsCacheWhenQuiet ==
    (loaded /\ Quiescent) =>
        \/ disk.kind = "ok" /\ disk.table = sessions
        \/ disk.kind = "absent" /\ sessions = EmptyTable

(***************************************************************************)
(* The stdout handler: the output arrives in chunks of any size, and the    *)
(* exit event of the child process may run before the last chunks have      *)
(* been read from the pipe.                                                 *)
(***************************************************************************)
MaxOut == 3
Chars == {"a", " ", "\n"}
Texts == UNION {[1..n -> Chars] : n \in 1..MaxOut}

\* text.split("\n")
RECURSIVE split(_)
split(text) ==
    IF \A k \in 1..Len(text) : text[k] /= "\n"
    THEN <<text>>
    ELSE LET k == CHOOSE i \in 1..Len(text) :
                      text[i] = "\n" /\ \A j \in 1..(i - 1) : text[j] /= "\n"
         IN <<SubSeq(text, 1, k - 1)>> \o split(SubSeq(text, k + 1, Len(text)))

\* line.trim() is not empty
notBlank(line) == \E k \in 1..Len(line) : line[k] \notin {" ", "\n"}

AllButLast(seq) == SubSeq(seq, 1, Len(seq) - 1)
Called(lines, threw) == [k \in 1..Len(lines) |-> [line |-> lines[k], threw |-> threw]]

notPipe == <<storeVars, fwdVars, hubVars, runVars, toolVars, lifeVars, castVars, opsVars,
             projVars, pureVars, peerVars>>

\* child.stdout.on("data"): the next n characters arrive; threw is whether the
\* callback throws for the lines of this chunk
Data(n, threw) ==
    /\ n <= Len(pipe.todo)
    /\ LET chunk == SubSeq(pipe.todo, 1, n)
           parts == split(pipe.lineBuffer \o chunk)
       IN pipe' = [pipe EXCEPT
                     !.todo = SubSeq(pipe.todo, n + 1, Len(pipe.todo)),
                     !.stdout = pipe.stdout \o chunk,
                     !.lineBuffer = parts[Len(parts)],
                     !.delivered = pipe.delivered \o
                         Called(SelectSeq(AllButLast(parts), notBlank), threw)]
    /\ UNCHANGED notPipe

\* child.on("exit"): the line buffer is flushed and the promise resolves with stdout
Exit(threw) ==
    /\ ~pipe.exited
    /\ LET d == IF notBlank(pipe.lineBuffer)
                THEN Append(pipe.delivered, [line |-> pipe.lineBuffer, threw |-> threw])
                ELSE pipe.delivered
       IN pipe' = [pipe EXCEPT !.exited = TRUE, !.delivered = d,
                               !.atExit = Len(d), !.result = pipe.stdout]
    /\ UNCHANGED notPipe

InitLines ==
    /\ InitStoreVars /\ InitFwdVars /\ InitHubVars /\ NoRun /\ InitToolVars /\ InitLifeVars
    /\ InitCastVars /\ InitOpsVars /\ InitProjVars /\ InitPureVars /\ InitPeerVars
    /\ disk = AbsentFile
    /\ pipe \in {[IdlePipe EXCEPT !.todo = t] : t \in Texts}

NextLines ==
    \/ \E n \in 1..MaxOut, threw \in BOOLEAN : Data(n, threw)
    \/ \E threw \in BOOLEAN : Exit(threw)

SpecLines == InitLines /\ [][NextLines]_vars

\* everything the tool writes
WholeOutput == pipe.stdout \o pipe.todo
DeliveredLines == [k \in 1..Len(pipe.delivered) |-> pipe.delivered[k].line]

\* C34: every non-blank line of the output is passed to the callback exactly once and
\* in order: before exit exactly the complete lines received so far have been passed,
\* and once the process has exited and all its output has arrived exactly the
\* non-blank lines of the whole output, the unterminated last one included.
C34_EachLineOnceInOrder ==
    /\ ~pipe.exited =>
          DeliveredLines = SelectSeq(AllButLast(split(pipe.stdout)), notBlank)
    /\ (pipe.exited /\ pipe.todo = <<>>) =>
          DeliveredLines = SelectSeq(split(WholeOutput), notBlank)

(***************************************************************************)
(* The end of an operation's event sequence                                *)
(***************************************************************************)
\* C35: once endOperation has published the terminal end event of an operation, no
\* further event with that operationId is published: the end event of endOperation
\* is the last event of its operation.
C35_NothingAfterEnd ==
    \A i \in Invocations :
        \A k \in 1..Len(inv[i].events) :
            inv[i].events[k] \in {endOperation(TRUE), endOperation(FALSE)} =>
                k = Len(inv[i].events)

(***************************************************************************)
(* Termination of a tool call.  The timers of the supervisor fire and the   *)
(* saves it awaits complete; when the external tool answers the             *)
(* availability check, writes or exits is up to the tool.                   *)
(***************************************************************************)
ToolFairness ==
    \A i \in Invocations :
        /\ WF_vars(timesOut(i))
        /\ WF_vars(finalStatus(i))
        /\ WF_vars(returns(i))

SpecToolLive == SpecTool /\ ToolFairness

Ended(i) ==
    \E k \in 1..Len(inv[i].events) :
        inv[i].events[k] \in {endOperation(TRUE), endOperation(FALSE)}

\* C36: every operation whose start event was published eventually has its end event
\* published and its tool call returns, whatever the external tool does.
C36_StartedEventuallyReturns ==
    \A i \in Invocations :
        (inv[i].events /= <<>>) ~> (Ended(i) /\ inv[i].pc = "returned")

(***************************************************************************)
(* session_discard against resumptions in progress, all in the default      *)
(* project root.  s1 is tracked and has a session directory; s2 has a       *)
(* session directory and no record.                                         *)
(***************************************************************************)
GuardRoot == resolveProjectRoot("")

\* exec / tdd / review called with sessionId id: updateStatus(id, "active"), then the
\* tool process is spawned
GuardResume(i, id) ==
    /\ proj.running[i] = ""
    /\ proj' = [proj EXCEPT
                  !.tables[GuardRoot] = updateStatusMap(@, id, "active", now),
                  !.running[i] = id,
                  !.last = [Before("resume", "") EXCEPT !.id = id]]
    /\ UNCHANGED <<now, notProj>>

\* the tool process of call i exits: markResumed, then updateStatus with the status of
\* the exit code
GuardExit(i, exitCode) ==
    /\ proj.running[i] /= ""
    /\ LET id == proj.running[i]
       IN proj' = [proj EXCEPT
                     !.tables[GuardRoot] =
                         updateStatusMap(markResumedMap(@, id, now), id,
                                         trackedStatus(exitCode), now),
                     !.running[i] = "",
                     !.last = [Before("exit", "") EXCEPT !.id = id]]
    /\ UNCHANGED <<now, notProj>>

InitGuard ==
    /\ InitStoreVars /\ InitFwdVars /\ InitHubVars /\ NoRun /\ InitToolVars /\ InitLifeVars
    /\ InitCastVars /\ InitOpsVars /\ InitPureVars /\ InitPipeVars /\ InitPeerVars
    /\ disk = AbsentFile
    /\ proj = [IdleProj EXCEPT
                 !.tables[GuardRoot] =
                     MapSet(EmptyTable, "s1", TrackedSession("s1", "exec", 1, "completed")),
                 !.artifacts = {"s1", "s2"}]

NextGuard ==
    \/ \E i \in GuardRuns, id \in OpIds : GuardResume(i, id)
    \/ \E i \in GuardRuns, exitCode \in {0, 1} : GuardExit(i, exitCode)
    \/ \E id \in OpIds, force \in BOOLEAN : ProjDiscard("", id, force)
    \/ ProjTick

SpecGuard == InitGuard /\ [][NextGuard]_vars

ProcessRunning(id) == \E i \in GuardRuns : proj.running[i] = id

\* C38: a session_discard without force of a session whose tool process is running
\* removes neither the session's record nor its session directory.
C38_DiscardSparesRunning ==
    [][\A id \in OpIds :
          (/\ proj'.last.op = "discard"
           /\ proj'.last.id = id
           /\ ~proj'.last.force
           /\ ProcessRunning(id))
          => /\ id \in proj.artifacts => id \in proj'.artifacts
             /\ id \in DOMAIN proj.tables[GuardRoot] =>
                   id \in DOMAIN proj'.tables[GuardRoot]]_vars

(***************************************************************************)
(* Two supervisor processes tracking sessions in one project root.  Each    *)
(* serializes its own saves; nothing orders the saves of one process with   *)
(* those of the other.                                                      *)
(***************************************************************************)
\* a temp file two writeFile calls have written to at the same time
MixedFile == [kind |-> "mixed", table |-> EmptyTable]

notPeers == <<sessions, loaded, writeQueue, saveStep, calls, now, fwdVars, hubVars,
              runVars, toolVars, lifeVars, castVars, opsVars, projVars, pureVars, pipeVars>>

\* track(session) in process p: load() on the first call, sessions.set, save() starts
\* doSave (mkdir is a no-op or creates the directory)
PeerTrack(p, id) ==
    /\ peers[p].pc = "idle"
    /\ LET m == IF peers[p].loaded THEN peers[p].sessions ELSE loadedTable(disk)
       IN peers' = [peers EXCEPT ![p] =
                       [loaded |-> TRUE,
                        sessions |-> MapSet(m, id, TrackedSession(id, "exec", now, "completed")),
                        pc |-> "write"]]
    /\ UNCHANGED <<disk, tmp, notPeers>>

\* doSave of p: writeFile opens and truncates the temp file and starts writing; the
\* other process may be writing it
PeerWrite(p) ==
    /\ peers[p].pc = "write"
    /\ tmp' = IF tmp.kind \in {"partial", "mixed"} THEN MixedFile
              ELSE PartialFile(peers[p].sessions)
    /\ peers' = [peers EXCEPT ![p].pc = "writing"]
    /\ UNCHANGED <<disk, notPeers>>

\* writeFile of p has written all its content: to the temp file, to the temp file the
\* other process also wrote to (the result is p's content or a mix of both), or to the
\* file the other process has renamed meanwhile
PeerWritten(p, whole) ==
    /\ peers[p].pc = "writing"
    /\ IF tmp.kind = "partial"
       THEN tmp' = TableFile(tmp.table) /\ UNCHANGED disk
       ELSE IF tmp.kind = "mixed"
       THEN tmp' = (IF whole THEN TableFile(peers[p].sessions) ELSE MixedFile)
            /\ UNCHANGED disk
       ELSE /\ UNCHANGED tmp
            /\ disk' = IF disk.kind = "partial" THEN TableFile(disk.table)
                       ELSE IF disk.kind = "mixed" /\ whole
                            THEN TableFile(peers[p].sessions)
                       ELSE disk
    /\ peers' = [peers EXCEPT ![p].pc = "rename"]
    /\ UNCHANGED notPeers

\* rename of p: the temp file, whatever it holds, replaces the table; when the other
\* process has renamed it away the rename fails and the failure is swallowed
PeerRename(p) ==
    /\ peers[p].pc = "rename"
    /\ IF tmp.kind = "absent"
       THEN UNCHANGED <<disk, tmp>>
       ELSE disk' = tmp /\ tmp' = AbsentFile
    /\ peers' = [peers EXCEPT ![p].pc = "idle"]
    /\ UNCHANGED notPeers

InitPeers ==
    /\ InitStoreVars /\ InitFwdVars /\ InitHubVars /\ NoRun /\ InitToolVars /\ InitLifeVars
    /\ InitCastVars /\ InitOpsVars /\ InitProjVars /\ InitPureVars
    /\ InitPipeVars /\ InitPeerVars
    /\ disk = AbsentFile

NextPeers ==
    \/ \E p \in Peers, id \in Ids : PeerTrack(p, id)
    \/ \E p \in Peers : PeerWrite(p)
    \/ \E p \in Peers, whole \in BOOLEAN : PeerWritten(p, whole)
    \/ \E p \in Peers : PeerRename(p)

SpecPeers == InitPeers /\ [][NextPeers]_vars

\* C39: a record that is in the table on disk is never removed from it by a later
\* mutation of either process (the processes only track), and the table file is
\* always absent or one process's complete serialization.
C39_SharedTableKeepsRecords ==
    /\ [](disk.kind \in {"absent", "ok"})
    /\ [][\A id \in Ids :
             (disk.kind = "ok" /\ id \in DOMAIN disk.table) =>
                 (disk'.kind = "ok" /\ id \in DOMAIN disk'.table)]_vars

(***************************************************************************)
(* Delivery by a forwarder that is not stopped and whose queue never        *)
(* exceeds the cap.  Timers fire and every request in flight is answered;   *)
(* whether the answer is an acceptance is up to the hub.                    *)
(***************************************************************************)
\* emit(event) while the queue is below the cap
EmitBelowCap == Len(ingestQueue) < MaxQueue /\ Emit

NextDeliver ==
    \/ EmitBelowCap
    \/ \E k \in 1..MaxPosts : PostAccepted(k)
    \/ \E k \in 1..MaxPosts : PostFailed(k)
    \/ RetryTimerFires

FwdFairness ==
    /\ WF_vars(RetryTimerFires)
    /\ \A k \in 1..MaxPosts : WF_vars(PostAccepted(k) \/ PostFailed(k))

SpecDeliver == InitFwd /\ [][NextDeliver]_vars /\ FwdFairness

Times(e, log) == Cardinality({k \in 1..Len(log) : log[k] = e})
SomePostFails == \E k \in 1..MaxPosts : PostFailed(k)

\* C37: if from some point on the hub accepts every delivery request, every emitted
\* event is eventually in the hub's log exactly once, and stays so.
C37_EveryEventAcceptedOnce ==
    <>[][~SomePostFails]_vars
    => \A e \in 1..MaxEvents : [](nextEvent > e => <>[](Times(e, hubLog) = 1))

(***************************************************************************)
(* Lineage pointers                                                        *)
(***************************************************************************)
\* C40: lineage pointers are symmetric and never dangling: a record whose
\* linkedSessionId is b has a partner record b whose linkedSessionId points back.
C40_LinksSymmetric ==
    \A a \in DOMAIN sessions :
        sessions[a].linkedSessionId /= "" =>
            /\ sessions[a].linkedSessionId \in DOMAIN sessions
            /\ sessions[sessions[a].linkedSessionId].linkedSessionId = a

====
